---- MODULE Spec2Model ----
(***************************************************************************)
(* Model of the cadastre API's geographic search core:                     *)
(*   - RateLimiter (sliding window admission, entreprises-api),            *)
(*   - owner aggregation and the owner-capped row query (geo-search-postgis)*)
(*   - beneficial-owner resolution (entreprises-api),                      *)
(*   - the search orchestrators and the NDJSON streaming route.            *)
(* Each part has its own specification over the shared variable list; the  *)
(* variables of the other parts stay at their initial value.               *)
(***************************************************************************)
EXTENDS Integers, Sequences, FiniteSets, TLC

VARIABLES
    \* ---- RateLimiter (process-wide singleton) and its callers
    now,          \* Date.now(), in model milliseconds
    timestamps,   \* RateLimiter.timestamps
    rlpc,         \* caller -> "idle" | "sleeping"
    wakeAt,       \* caller -> earliest time its setTimeout may fire
    grants,       \* history: the time of every grant (push), in order
    pushes,       \* history: number of timestamps.push() executed
    \* ---- GeoStore query and owner aggregation (one search)
    store,        \* rows of proprietaires_geo inside the region, in store order
    ownerCap,     \* effectiveLimit = Math.min(limit, MAX_RESULTS)
    aggpc,        \* "fetch" | "aggregate" | "group" | "done"
    chosenKeys,   \* keys the proprietaires_uniques CTE selected
    fetchedIdx,   \* history: positions of the store rows that were returned
    fetched,      \* result.rows
    proprietairesMap, \* Map<key, entry>, as its insertion-ordered entry list
    resultats,    \* the owner results, with their grouped properties
    \* ---- Beneficial-owner resolution (one mapToEntrepriseEnrichie call)
    graph,        \* the registry: entity id -> its raw dirigeants
    bepc,         \* position of the searchBySiren call, see the actions
    stack,        \* the active calls of resolveBeneficiairesEffectifs
    sirensVisites, \* the visited set shared by the calls
    beResult,     \* beneficiaires_effectifs returned to mapToEntrepriseEnrichie
    lookups,      \* history: network lookups of fetchDirigeantsRaw
    beFaults,     \* history: number of lookups that failed
    depthStops,   \* history: number of branches cut by MAX_DEPTH
    sirenArg,     \* the argument of searchBySiren / enrichSiren
    slots,        \* history: number of waitForSlot() calls that returned
    gets,         \* history: number of client.get() calls sent
    \* ---- One search call (searchByPolygon, searchByPolygonStreaming or
    \*      searchByRadius) and, for the streaming one, the NDJSON route
    mode,         \* "batch" | "stream" | "radius"
    polygon,      \* number of points of the polygon argument, -1 for null
    spc,          \* position of the call, see the actions
    totalDansPolygone, \* result of the count query
    index,        \* number of owners the result loop has finished
    enrichmentCount, \* enrichmentCount / enrichCount
    result,       \* the value the call returned
    thrown,       \* the exception that left the call, "" when none
    storeCalls,   \* history: the pool.query() calls and their outcome
    regCalls,     \* history: the enrichSiren() calls that reached the registry
    enrichLog,    \* history: what each enrichSiren() call met and returned
    callbacks,    \* history: the onResult() invocations
    clientClosed, \* route: clientClosed
    streamEnded,  \* route: streamEnded
    written,      \* route: the NDJSON records written to the response
    closedAt,     \* history: number of callbacks fired when the client closed
    request,      \* body of the POST /search/geo/radius request
    reply,        \* error code the radius route replied with, "" when none
    ends,         \* history: number of res.end() calls of the streaming route
    importStatus, \* ban-setup: importState.status
    banpc,        \* position of each startBanImport() call
    banReturn,    \* what each startBanImport() call returned, "" before
    pipeline,     \* phase of the background pipeline each call started
    calledAt      \* history: importState.status when each call was made

rlVars == <<now, timestamps, rlpc, wakeAt, grants, pushes>>

aggVars == <<store, ownerCap, aggpc, chosenKeys, fetchedIdx, fetched,
             proprietairesMap, resultats>>

beVars == <<graph, bepc, stack, sirensVisites, beResult, lookups, beFaults,
            depthStops, sirenArg, slots, gets>>

seVars == <<mode, polygon, spc, totalDansPolygone, index, enrichmentCount,
            result, thrown, storeCalls, regCalls, enrichLog, callbacks,
            clientClosed, streamEnded, written, closedAt, request, reply,
            ends>>

banVars == <<importStatus, banpc, banReturn, pipeline, calledAt>>

vars == <<now, timestamps, rlpc, wakeAt, grants, pushes,
          store, ownerCap, aggpc, chosenKeys, fetchedIdx, fetched,
          proprietairesMap, resultats,
          graph, bepc, stack, sirensVisites, beResult, lookups, beFaults,
          depthStops, sirenArg, slots, gets,
          mode, polygon, spc, totalDansPolygone, index, enrichmentCount,
          result, thrown, storeCalls, regCalls, enrichLog, callbacks,
          clientClosed, streamEnded, written, closedAt, request, reply,
          ends,
          importStatus, banpc, banReturn, pipeline, calledAt>>

(***************************************************************************)
(* Generic helpers                                                         *)
(***************************************************************************)
Min(a, b) == IF a <= b THEN a ELSE b

\* The elements of a sequence, as a set.
Range(s) == {s[i] : i \in DOMAIN s}

\* The subsequence of s at the positions in idx, in order.
RECURSIVE Pick(_, _, _)
Pick(s, idx, i) ==
    IF i > Len(s) THEN <<>>
    ELSE (IF i \in idx THEN <<s[i]>> ELSE <<>>) \o Pick(s, idx, i + 1)

\* SQL NULL / JavaScript null, and JavaScript truthiness of a string.
Null == "<NULL>"

Truthy(x) == x # "" /\ x # Null

(***************************************************************************)
(* RateLimiter                                                             *)
(***************************************************************************)
\* Scaled parameters of new RateLimiter(maxRequests, windowMs) and of the
\* +10 ms margin; the claims are stated for any values.
MaxRequests == 2
WindowMs == 3
Margin == 1

\* Bounds of the exploration.
NCallers == 3
MaxTime == 7
MaxGrants == 4

Callers == 1..NCallers

\* this.timestamps.filter(ts => now - ts < this.windowMs)
Prune(ts, t) == SelectSeq(ts, LAMBDA x : t - x < WindowMs)

\* if (this.timestamps.length >= this.maxRequests)
IsFullMutant(ts) == Len(ts) > MaxRequests

IsFull(ts) == Len(ts) >= MaxRequests

\* waitTime = windowMs - (now - oldestTs) + 10
WaitTime(ts, t) == WindowMs - (t - ts[1]) + Margin

\* A run that records its timestamp also when the caller has to sleep.
WaitForSlotRunMutant(c) ==
    LET kept == Prune(timestamps, now) IN
    IF IsFull(kept)
    THEN /\ timestamps' = Append(kept, now)
         /\ wakeAt' = [wakeAt EXCEPT ![c] = now + WaitTime(kept, now)]
         /\ rlpc' = [rlpc EXCEPT ![c] = "sleeping"]
    ELSE /\ timestamps' = Append(kept, now)
         /\ rlpc' = [rlpc EXCEPT ![c] = "idle"]
         /\ UNCHANGED wakeAt

\* One synchronous run of the body of waitForSlot() by caller c, on the
\* limiter and the caller alone: from Date.now() to either the push (the
\* call returns) or the setTimeout (the caller sleeps).
WaitForSlotRun(c) ==
    LET kept == Prune(timestamps, now) IN
    IF IsFull(kept)
    THEN /\ timestamps' = kept
         /\ wakeAt' = [wakeAt EXCEPT ![c] = now + WaitTime(kept, now)]
         /\ rlpc' = [rlpc EXCEPT ![c] = "sleeping"]
    ELSE /\ timestamps' = Append(kept, now)
         /\ rlpc' = [rlpc EXCEPT ![c] = "idle"]
         /\ UNCHANGED wakeAt

\* The same run, with the grant recorded in the history of the limiter.
WaitForSlotBody(c) ==
    /\ WaitForSlotRun(c)
    /\ IF IsFull(Prune(timestamps, now))
       THEN UNCHANGED <<grants, pushes>>
       ELSE /\ grants' = Append(grants, now)
            /\ pushes' = pushes + 1

\* A caller (searchBySiren, fetchDirigeantsRaw, searchByDenomination of any
\* running search) calls waitForSlot().
RLCall(c) ==
    /\ rlpc[c] = "idle"
    /\ Len(grants) < MaxGrants
    /\ WaitForSlotBody(c)
    /\ UNCHANGED now

\* The setTimeout of a sleeping caller fires (never before its delay) and
\* the caller re-enters waitForSlot().
RLWake(c) ==
    /\ rlpc[c] = "sleeping"
    /\ now >= wakeAt[c]
    /\ WaitForSlotBody(c)
    /\ UNCHANGED now

\* Time passes.
RLTick ==
    /\ now < MaxTime
    /\ now' = now + 1
    /\ UNCHANGED <<timestamps, rlpc, wakeAt, grants, pushes>>

RLStart ==
    /\ now = 0
    /\ timestamps = <<>>
    /\ rlpc = [c \in Callers |-> "idle"]
    /\ wakeAt = [c \in Callers |-> 0]
    /\ grants = <<>>
    /\ pushes = 0

\* The limiter over unbounded time. Time is measured from the present: now
\* stays 0, and a millisecond passing moves every timestamp and every timer
\* one millisecond into the past. A timestamp of age windowMs or more is
\* kept at age windowMs (the filter drops it at any such age), a timer that
\* is not armed is kept at 0. The history of grants is not recorded.

\* A caller calls waitForSlot().
RLFCall(c) ==
    /\ rlpc[c] = "idle"
    /\ WaitForSlotRun(c)
    /\ UNCHANGED <<now, grants, pushes>>

\* The setTimeout of a sleeping caller fires and the caller re-enters
\* waitForSlot().
RLFWake(c) ==
    /\ rlpc[c] = "sleeping"
    /\ now >= wakeAt[c]
    /\ WaitForSlotRun(c)
    /\ UNCHANGED <<now, grants, pushes>>

\* A millisecond passes. Timers are punctual: time does not pass a timer
\* that is due.
RLFTick ==
    /\ \A c \in Callers : rlpc[c] = "sleeping" => now < wakeAt[c]
    /\ timestamps' = [i \in DOMAIN timestamps |->
                         IF timestamps[i] - 1 < now - WindowMs
                         THEN now - WindowMs ELSE timestamps[i] - 1]
    /\ wakeAt' = [c \in Callers |->
                     IF wakeAt[c] - 1 < now THEN now ELSE wakeAt[c] - 1]
    /\ UNCHANGED <<now, rlpc, grants, pushes>>

(***************************************************************************)
(* GeoStore rows                                                           *)
(***************************************************************************)
\* Bounds of the exploration.
MaxRows == 3
MaxCap == 2

\* A row of proprietaires_geo (ProprietaireGeoRaw), restricted to the columns
\* the aggregation reads.
Row(siren, denomination, adresse_complete, adr, ref) ==
    [siren |-> siren, denomination |-> denomination,
     adresse_complete |-> adresse_complete,
     numero_voirie |-> adr[1], nature_voie |-> adr[2], nom_voie |-> adr[3],
     nom_commune |-> adr[4], departement |-> ref[1], code_commune |-> ref[2],
     prefixe_section |-> ref[3], section |-> ref[4], numero_plan |-> ref[5]]

Siren1 == "123456789"

Addr1 == "12 Rue de la Paix - PARIS 75"

NoAdr == <<"", "", "", "">>

Adr2 == <<"012", "RUE", "DE LA PAIX", "PARIS">>

Ref1 == <<"75", "101", "", "AB", "12">>

Ref2 == <<"75", "101", "", "AB", "13">>

Ref3 == <<"75", "101", "000", "AB", "12">>

NoRef == <<Null, "", Null, "", "">>

\* A reference without commune code whose prefix is "101".
RefShift == <<"75", "", "101", "AB", "12">>

\* The rows the store is populated from.
RowUniverse ==
    { Row(Siren1, "ACME", Addr1, NoAdr, Ref1),
      Row(Siren1, "ACME SA", Addr1, NoAdr, Ref1),
      Row(Siren1, "ACME", Addr1, NoAdr, Ref2),
      Row(Siren1, "ACME", Addr1, NoAdr, RefShift),
      Row(Siren1, "ACME", "", Adr2, Ref1),
      Row("", "ACME", Addr1, NoAdr, Ref1),
      Row("", "", Null, NoAdr, NoRef),
      Row(Null, "inconnu", Addr1, NoAdr, Ref1),
      Row("", Null, Addr1, NoAdr, Ref1),
      Row("12345", "SCI B", Addr1, NoAdr, Ref3) }

\* Sequences over S of length at most n.
SeqUpTo(S, n) == UNION {[1..k -> S] : k \in 0..n}

(***************************************************************************)
(* rowsIn: the owner-capped query of searchByPolygon / searchByRadius      *)
(***************************************************************************)
\* COALESCE(NULLIF(siren, ''), denomination)
SqlKey(r) == IF r.siren # "" /\ r.siren # Null THEN r.siren ELSE r.denomination

\* SELECT DISTINCT <key> ... : the distinct keys of the region rows (NULL is
\* one value of a SELECT DISTINCT).
DistinctKeys(rows) == {SqlKey(rows[i]) : i \in DOMAIN rows}

\* ... LIMIT $2: any min(cap, n) of them, the enumeration order being the
\* store's.
LimitedKeySetsMutant(rows, cap) ==
    {K \in SUBSET DistinctKeys(rows) :
        Cardinality(K) = Min(cap + 1, Cardinality(DistinctKeys(rows)))}

LimitedKeySets(rows, cap) ==
    {K \in SUBSET DistinctKeys(rows) :
        Cardinality(K) = Min(cap, Cardinality(DistinctKeys(rows)))}

\* WHERE <key> IN (SELECT proprio_key FROM proprietaires_uniques): never true
\* of a NULL key.
SelectedIdx(rows, K) ==
    {i \in DOMAIN rows : SqlKey(rows[i]) # Null /\ SqlKey(rows[i]) \in K}

\* COUNT(DISTINCT <key>): NULL keys are not counted.
CountDistinct(rows) == Cardinality(DistinctKeys(rows) \ {Null})

(***************************************************************************)
(* transformToPropiete and the owner grouping                              *)
(***************************************************************************)
\* Array.prototype.join(sep) over strings.
RECURSIVE Join(_, _)
Join(parts, sep) ==
    IF Len(parts) = 0 THEN ""
    ELSE IF Len(parts) = 1 THEN parts[1]
    ELSE parts[1] \o sep \o Join(Tail(parts), sep)

\* [...].filter(Boolean)
FilterBoolean(parts) == SelectSeq(parts, Truthy)

\* reference_complete: [departement, code_commune, prefixe_section, section,
\* numero_plan].filter(Boolean).join('-')
ReferenceComplete(raw) ==
    Join(FilterBoolean(<<raw.departement, raw.code_commune, raw.prefixe_section,
                         raw.section, raw.numero_plan>>), "-")

\* decodeNatureVoie, on the codes of the row universe.
DecodeNatureVoie(code) ==
    IF ~Truthy(code) THEN "" ELSE IF code = "RUE" THEN "Rue" ELSE code

\* normalizeNomVoie, on the names of the row universe.
NormalizeNomVoie(nom) ==
    IF ~Truthy(nom) THEN "" ELSE IF nom = "DE LA PAIX" THEN "De la Paix" ELSE nom

\* parseInt(numero).toString(), on the numbers of the row universe.
ParseIntToString(numero) == IF numero = "012" THEN "12" ELSE numero

\* formatAdresseComplete(numero, '', natureVoie, nomVoie, commune, departement)
FormatAdresseComplete(numero, natureVoie, nomVoie, commune, departement) ==
    LET num == IF Truthy(numero) /\ numero # "0" /\ numero # "00000"
               THEN <<ParseIntToString(numero)>> ELSE <<>>
        typ == IF DecodeNatureVoie(natureVoie) # ""
               THEN <<DecodeNatureVoie(natureVoie)>> ELSE <<>>
        voie == IF NormalizeNomVoie(nomVoie) # ""
                THEN <<NormalizeNomVoie(nomVoie)>> ELSE <<>>
        location == Join(FilterBoolean(<<commune, departement>>), " ")
        loc == IF location # "" THEN <<"- " \o location>> ELSE <<>>
    IN Join(num \o typ \o voie \o loc, " ")

\* adresse.adresse_complete of transformToPropiete
AdresseComplete(raw) ==
    IF Truthy(raw.adresse_complete) THEN raw.adresse_complete
    ELSE FormatAdresseComplete(raw.numero_voirie, raw.nature_voie, raw.nom_voie,
                               raw.nom_commune, raw.departement)

\* transformToPropiete(raw), restricted to the fields the grouping reads.
TransformToPropiete(raw) ==
    [adresse_complete |-> AdresseComplete(raw),
     reference_complete |-> ReferenceComplete(raw),
     siren |-> IF Truthy(raw.siren) THEN raw.siren ELSE "",
     denomination |-> IF Truthy(raw.denomination) THEN raw.denomination ELSE ""]

\* const key = raw.siren || raw.denomination || 'inconnu'
MapKeyMutant(raw) == IF Truthy(raw.siren) THEN raw.siren ELSE "inconnu"

MapKey(raw) ==
    IF Truthy(raw.siren) THEN raw.siren
    ELSE IF Truthy(raw.denomination) THEN raw.denomination
    ELSE "inconnu"

\* Position of key k in the entry list m, 0 when absent (Map.has / Map.get).
RECURSIVE MapFind(_, _, _)
MapFind(m, k, i) ==
    IF i > Len(m) THEN 0 ELSE IF m[i].key = k THEN i ELSE MapFind(m, k, i + 1)

\* A map that puts a new owner before the owners seen so far.
AddRowMutant(m, rows, n) ==
    LET raw == rows[n]
        key == MapKey(raw)
        m1 == IF MapFind(m, key, 1) = 0
              THEN <<[key |-> key,
                      proprietaire |-> TransformToPropiete(raw),
                      proprietes |-> <<>>, sirens |-> <<>>]>> \o m
              ELSE m
        at == MapFind(m1, key, 1)
        e == m1[at]
        s1 == IF Truthy(raw.siren) /\ raw.siren \notin Range(e.sirens)
              THEN Append(e.sirens, raw.siren) ELSE e.sirens
    IN [m1 EXCEPT ![at] = [e EXCEPT !.proprietes = Append(e.proprietes, n),
                                    !.sirens = s1]]

\* One iteration of "for (const raw of result.rows)": rows[n] is added to the
\* entry of its key, created at the end of the map when the key is new. An
\* entry keeps the positions of its rows (proprietes) and the insertion-ordered
\* Set of its truthy sirens.
AddRow(m, rows, n) ==
    LET raw == rows[n]
        key == MapKey(raw)
        m1 == IF MapFind(m, key, 1) = 0
              THEN Append(m, [key |-> key,
                              proprietaire |-> TransformToPropiete(raw),
                              proprietes |-> <<>>, sirens |-> <<>>])
              ELSE m
        at == MapFind(m1, key, 1)
        e == m1[at]
        s1 == IF Truthy(raw.siren) /\ raw.siren \notin Range(e.sirens)
              THEN Append(e.sirens, raw.siren) ELSE e.sirens
    IN [m1 EXCEPT ![at] = [e EXCEPT !.proprietes = Append(e.proprietes, n),
                                    !.sirens = s1]]

\* The whole grouping loop over result.rows[1..n].
RECURSIVE GroupByOwner(_, _)
GroupByOwner(rows, n) ==
    IF n = 0 THEN <<>> ELSE AddRow(GroupByOwner(rows, n - 1), rows, n)

(***************************************************************************)
(* groupProprietesParAdresse                                               *)
(***************************************************************************)
\* Position of address key k in the group list g, 0 when absent.
RECURSIVE GroupFind(_, _, _)
GroupFind(g, k, i) ==
    IF i > Len(g) THEN 0 ELSE IF g[i].key = k THEN i ELSE GroupFind(g, k, i + 1)

\* One iteration of the loop of groupProprietesParAdresse over prop.
AddPropMutant(g, prop) ==
    LET key == IF prop.adresse_complete # "" THEN prop.adresse_complete
               ELSE "unknown"
        g1 == IF GroupFind(g, key, 1) = 0
              THEN Append(g, [key |-> key, references_cadastrales |-> <<>>,
                              nombre_lots |-> 0])
              ELSE g
        at == GroupFind(g1, key, 1)
        e == g1[at]
        ref == prop.reference_complete
        isNew == ref # "" /\ ref \notin Range(e.references_cadastrales)
    IN [g1 EXCEPT ![at] =
          [e EXCEPT !.references_cadastrales =
                        IF isNew THEN Append(@, ref) ELSE @,
                    !.nombre_lots = IF isNew THEN @ + 1 ELSE @]]

\* A grouping that pushes the reference without testing that it is non-empty.
AddPropUnguarded(g, prop) ==
    LET key == IF prop.adresse_complete # "" THEN prop.adresse_complete
               ELSE "unknown"
        g1 == IF GroupFind(g, key, 1) = 0
              THEN Append(g, [key |-> key, references_cadastrales |-> <<>>,
                              nombre_lots |-> 0])
              ELSE g
        at == GroupFind(g1, key, 1)
        e == g1[at]
        ref == prop.reference_complete
        isNew == ref \notin Range(e.references_cadastrales)
    IN [g1 EXCEPT ![at] =
          [e EXCEPT !.references_cadastrales =
                        IF isNew THEN Append(@, ref) ELSE @,
                    !.nombre_lots = @ + 1]]

AddProp(g, prop) ==
    LET key == IF prop.adresse_complete # "" THEN prop.adresse_complete
               ELSE "unknown"
        g1 == IF GroupFind(g, key, 1) = 0
              THEN Append(g, [key |-> key, references_cadastrales |-> <<>>,
                              nombre_lots |-> 0])
              ELSE g
        at == GroupFind(g1, key, 1)
        e == g1[at]
        ref == prop.reference_complete
        isNew == ref # "" /\ ref \notin Range(e.references_cadastrales)
    IN [g1 EXCEPT ![at] =
          [e EXCEPT !.references_cadastrales =
                        IF isNew THEN Append(@, ref) ELSE @,
                    !.nombre_lots = @ + 1]]

\* groupProprietesParAdresse(proprietes[1..n])
RECURSIVE GroupProprietesParAdresse(_, _)
GroupProprietesParAdresse(props, n) ==
    IF n = 0 THEN <<>>
    ELSE AddProp(GroupProprietesParAdresse(props, n - 1), props[n])

\* value.proprietes of a map entry: the transformed rows, in insertion order.
EntryProps(e, rows) ==
    [i \in DOMAIN e.proprietes |-> TransformToPropiete(rows[e.proprietes[i]])]

\* A result that counts the addresses of the owner as its lots.
OwnerResultMutant(e, rows) ==
    LET props == EntryProps(e, rows)
        grp == GroupProprietesParAdresse(props, Len(props))
    IN [key |-> e.key, proprietaire |-> e.proprietaire, proprietes |-> grp,
        nombre_adresses |-> Len(grp), nombre_lots |-> Len(grp)]

\* The result pushed for one map entry (enrichment aside).
OwnerResult(e, rows) ==
    LET props == EntryProps(e, rows)
        grp == GroupProprietesParAdresse(props, Len(props))
    IN [key |-> e.key, proprietaire |-> e.proprietaire, proprietes |-> grp,
        nombre_adresses |-> Len(grp), nombre_lots |-> Len(props)]

(***************************************************************************)
(* One search over the store: Fetching, Aggregating, grouping              *)
(***************************************************************************)
\* const result = await pool.query(query, [wkt, effectiveLimit])
AggFetch ==
    /\ aggpc = "fetch"
    /\ \E K \in LimitedKeySets(store, ownerCap) :
          /\ chosenKeys' = K
          /\ fetchedIdx' = SelectedIdx(store, K)
          /\ fetched' = Pick(store, SelectedIdx(store, K), 1)
    /\ aggpc' = "aggregate"
    /\ UNCHANGED <<store, ownerCap, proprietairesMap, resultats>>

\* for (const raw of result.rows) { ... proprietairesMap ... }
AggAggregate ==
    /\ aggpc = "aggregate"
    /\ proprietairesMap' = GroupByOwner(fetched, Len(fetched))
    /\ aggpc' = "group"
    /\ UNCHANGED <<store, ownerCap, chosenKeys, fetchedIdx, fetched, resultats>>

\* for (const [_, value] of proprietairesMap) { ... resultats.push(...) }
AggGroup ==
    /\ aggpc = "group"
    /\ resultats' = [i \in DOMAIN proprietairesMap |->
                        OwnerResult(proprietairesMap[i], fetched)]
    /\ aggpc' = "done"
    /\ UNCHANGED <<store, ownerCap, chosenKeys, fetchedIdx, fetched,
                   proprietairesMap>>

AggStart ==
    /\ store \in SeqUpTo(RowUniverse, MaxRows)
    /\ ownerCap \in 0..MaxCap
    /\ aggpc = "fetch"
    /\ chosenKeys = {}
    /\ fetchedIdx = {}
    /\ fetched = <<>>
    /\ proprietairesMap = <<>>
    /\ resultats = <<>>

\* The part at rest while another part's specification runs.
AggIdle ==
    /\ store = <<>>
    /\ ownerCap = 0
    /\ aggpc = "off"
    /\ chosenKeys = {}
    /\ fetchedIdx = {}
    /\ fetched = <<>>
    /\ proprietairesMap = <<>>
    /\ resultats = <<>>

RLIdle ==
    /\ now = 0
    /\ timestamps = <<>>
    /\ rlpc = [c \in Callers |-> "off"]
    /\ wakeAt = [c \in Callers |-> 0]
    /\ grants = <<>>
    /\ pushes = 0

(***************************************************************************)
(* Beneficial-owner resolution                                             *)
(***************************************************************************)
\* const MAX_DEPTH = 5
MAX_DEPTH == 5

\* A 9-character entity id, and a person's name.
EntId(k) == "90000000" \o ToString(k)

PersonName(k) == "P" \o ToString(k)

\* Raw dirigeants entries of the registry's answer.
PP(k) == [type_dirigeant |-> "personne physique", nom |-> PersonName(k),
          siren |-> "", denomination |-> "", qualite |-> "Gerant"]

PM(id) == [type_dirigeant |-> "personne morale", nom |-> "",
           siren |-> id, denomination |-> "SOC " \o id, qualite |-> "President"]

Other == [type_dirigeant |-> "", nom |-> "X", siren |-> "", denomination |-> "",
          qualite |-> ""]

\* A -> B -> A, each listing one natural person.
CycleGraph ==
    [id \in {EntId(0), EntId(1)} |->
        IF id = EntId(0) THEN <<PP(0), PM(EntId(1))>>
        ELSE <<PP(1), PM(EntId(0))>>]

\* The owner E0 over a chain E1 .. E(MAX_DEPTH+3) of nested legal entities,
\* entity Ek listing the natural person Pk and the next entity.
ChainLen == MAX_DEPTH + 3

ChainGraph ==
    [id \in {EntId(k) : k \in 0..ChainLen} |->
        LET k == CHOOSE j \in 0..ChainLen : id = EntId(j) IN
        IF k < ChainLen THEN <<PP(k), PM(EntId(k + 1))>> ELSE <<PP(k)>>]

\* The owner reaches E3 (and its person) through E1 and through E2.
DiamondGraph ==
    [id \in {EntId(k) : k \in 0..3} |->
        IF id = EntId(0) THEN <<PM(EntId(1)), PM(EntId(2))>>
        ELSE IF id = EntId(1) THEN <<PM(EntId(3))>>
        ELSE IF id = EntId(2) THEN <<PM(EntId(3)), PP(2)>>
        ELSE <<PP(3)>>]

\* The owner reaches the same natural person through E1 and through E2,
\* which both list it.
TwinGraph ==
    [id \in {EntId(k) : k \in 0..2} |->
        IF id = EntId(0) THEN <<PM(EntId(1)), PM(EntId(2))>>
        ELSE IF id = EntId(1) THEN <<PP(7)>>
        ELSE <<PP(7), PP(2)>>]

\* Directors that are skipped, a director whose id is not 9 characters long,
\* an entity the registry does not know (E2), one without directors (E3),
\* a repeated director and a self reference.
MiscGraph ==
    [id \in {EntId(0), EntId(1), EntId(3)} |->
        IF id = EntId(0)
        THEN <<Other, PM(""), PM("E12"), PM(EntId(2)), PM(EntId(3)),
               PM(EntId(1)), PM(EntId(1)), PP(0)>>
        ELSE IF id = EntId(1) THEN <<PM(EntId(1)), PP(1), PP(0)>>
        ELSE <<>>]

Graphs == {CycleGraph, ChainGraph, DiamondGraph, TwinGraph, MiscGraph}

\* The original owner, data.siren of the top-level registry answer.
RootId == EntId(0)

\* results[0].dirigeants || [] for a known entity, results empty otherwise.
Dirigeants(g, siren) == IF siren \in DOMAIN g THEN g[siren] ELSE <<>>

\* if (!siren || siren.length !== 9) return []
ValidSiren(siren) == Truthy(siren) /\ Len(siren) = 9

\* if (profondeur >= MAX_DEPTH)
DepthReachedMutant(profondeur) == profondeur > MAX_DEPTH

DepthReached(profondeur) == profondeur >= MAX_DEPTH

\* if (sirensVisites.has(sirenPM))
AlreadyVisitedMutant(visites, sirenPM) == FALSE

AlreadyVisited(visites, sirenPM) == sirenPM \in visites

\* One call of resolveBeneficiairesEffectifs(dirigeantsRaw, chaineActuelle,
\* sirensVisites, profondeur), at director idx, with its beneficiaires so far.
Frame(dirs, chaine, profondeur) ==
    [dirs |-> dirs, idx |-> 1, chaine |-> chaine, profondeur |-> profondeur,
     beneficiaires |-> <<>>]

Top == stack[Len(stack)]

\* The director the running call is at.
Cur == Top.dirs[Top.idx]

AtDirector == bepc = "resolve" /\ Len(stack) > 0 /\ Top.idx <= Len(Top.dirs)

IsPersonnePhysique(d) == d.type_dirigeant = "personne physique"

IsPersonneMorale(d) == d.type_dirigeant = "personne morale" /\ Truthy(d.siren)

\* The stack with the running call moved to its next director (continue).
Continue == [stack EXCEPT ![Len(stack)].idx = @ + 1]

\* A chain that grows at its head.
NouvelleChaineMutant(chaineActuelle, d) ==
    <<[siren |-> d.siren, denomination |-> d.denomination,
       qualite |-> d.qualite]>> \o chaineActuelle

\* const nouvelleChaine = [...chaineActuelle, {siren: sirenPM, denomination:
\* d.denomination || '', qualite: d.qualite || ''}]
NouvelleChaine(chaineActuelle, d) ==
    Append(chaineActuelle,
           [siren |-> d.siren, denomination |-> d.denomination,
            qualite |-> d.qualite])

\* The position a call takes after its guard: await waitForSlot(), in
\* fetchDirigeantsRaw (recursive) or in searchBySiren.
AwaitSlotMutant(recursive) == IF recursive THEN "rgranted" ELSE "slot"

AwaitSlot(recursive) == IF recursive THEN "rslot" ELSE "slot"

\* The arguments enrichSiren is called with: the owner's tax id, an empty
\* and a null one, one of 5 digits, and one of 9 characters that are not
\* digits.
EnrichArgs == {RootId, "", Null, "12345", "ABCDEFGHI"}

\* searchBySiren(siren): if (!siren || siren.length !== 9) return null, else
\* await waitForSlot().
BECall ==
    /\ bepc = "call"
    /\ bepc' = IF ValidSiren(sirenArg) THEN AwaitSlot(FALSE) ELSE "none"
    /\ UNCHANGED <<graph, stack, sirensVisites, beResult, lookups, beFaults,
                   depthStops, sirenArg, slots, gets>>

\* The registry answers the GET of searchBySiren: the company (only the
\* owner is known under its id), no result (return null), or a transport
\* error (caught, return null).
BEAnswer(outcome) ==
    /\ bepc = "get"
    /\ outcome = "ok" => sirenArg = RootId
    /\ bepc' = IF outcome = "ok" THEN "map" ELSE "none"
    /\ UNCHANGED <<graph, stack, sirensVisites, beResult, lookups, beFaults,
                   depthStops, sirenArg, slots, gets>>

\* mapToEntrepriseEnrichie: seed the visited set with data.siren and call the
\* resolution on data.dirigeants with an empty chain at depth 0.
BEMap ==
    /\ bepc = "map"
    /\ sirensVisites' = {RootId}
    /\ stack' = <<Frame(Dirigeants(graph, RootId), <<>>, 0)>>
    /\ bepc' = "resolve"
    /\ UNCHANGED <<graph, beResult, lookups, beFaults, depthStops, sirenArg, slots,
                   gets>>

\* A resolution that drops a natural person it has already built an entry
\* for.
BEPersonMutant ==
    /\ AtDirector
    /\ IsPersonnePhysique(Cur)
    /\ stack' = [stack EXCEPT
                    ![Len(stack)].beneficiaires =
                        IF \E i \in DOMAIN stack :
                              \E j \in DOMAIN stack[i].beneficiaires :
                                  stack[i].beneficiaires[j].nom = Cur.nom
                        THEN @
                        ELSE Append(@, [nom |-> Cur.nom, qualite |-> Cur.qualite,
                                        chaine_controle |-> Top.chaine]),
                    ![Len(stack)].idx = @ + 1]
    /\ UNCHANGED <<graph, bepc, sirensVisites, beResult, lookups, beFaults,
                   depthStops, sirenArg, slots, gets>>

\* d.type_dirigeant === 'personne physique': push a beneficiary carrying a
\* copy of the current chain.
BEPerson ==
    /\ AtDirector
    /\ IsPersonnePhysique(Cur)
    /\ stack' = [stack EXCEPT
                    ![Len(stack)].beneficiaires =
                        Append(@, [nom |-> Cur.nom, qualite |-> Cur.qualite,
                                   chaine_controle |-> Top.chaine]),
                    ![Len(stack)].idx = @ + 1]
    /\ UNCHANGED <<graph, bepc, sirensVisites, beResult, lookups, beFaults,
                   depthStops, sirenArg, slots, gets>>

\* Neither a natural person nor a legal entity with an id: nothing is done.
BESkip ==
    /\ AtDirector
    /\ ~IsPersonnePhysique(Cur)
    /\ ~IsPersonneMorale(Cur)
    /\ stack' = Continue
    /\ UNCHANGED <<graph, bepc, sirensVisites, beResult, lookups, beFaults,
                   depthStops, sirenArg, slots, gets>>

\* profondeur >= MAX_DEPTH: continue.
BEDepthStop ==
    /\ AtDirector
    /\ IsPersonneMorale(Cur)
    /\ DepthReached(Top.profondeur)
    /\ stack' = Continue
    /\ depthStops' = depthStops + 1
    /\ UNCHANGED <<graph, bepc, sirensVisites, beResult, lookups, beFaults,
                   sirenArg, slots, gets>>

\* sirensVisites.has(sirenPM): continue.
BECycleStop ==
    /\ AtDirector
    /\ IsPersonneMorale(Cur)
    /\ ~DepthReached(Top.profondeur)
    /\ AlreadyVisited(sirensVisites, Cur.siren)
    /\ stack' = Continue
    /\ UNCHANGED <<graph, bepc, sirensVisites, beResult, lookups, beFaults,
                   depthStops, sirenArg, slots, gets>>

\* A resolution that looks an entity up without marking it visited.
BEVisitMutant ==
    /\ AtDirector
    /\ IsPersonneMorale(Cur)
    /\ ~DepthReached(Top.profondeur)
    /\ ~AlreadyVisited(sirensVisites, Cur.siren)
    /\ IF ~ValidSiren(Cur.siren)
       THEN /\ stack' = Continue
            /\ UNCHANGED bepc
       ELSE /\ bepc' = AwaitSlot(TRUE)
            /\ UNCHANGED stack
    /\ UNCHANGED <<graph, sirensVisites, beResult, lookups, beFaults,
                   depthStops, sirenArg, slots, gets>>

\* The entity is marked visited and fetchDirigeantsRaw(sirenPM) is called:
\* an id that fails its guard gives [] at once (continue), else the call
\* awaits waitForSlot().
BEVisit ==
    /\ AtDirector
    /\ IsPersonneMorale(Cur)
    /\ ~DepthReached(Top.profondeur)
    /\ ~AlreadyVisited(sirensVisites, Cur.siren)
    /\ sirensVisites' = sirensVisites \cup {Cur.siren}
    /\ IF ~ValidSiren(Cur.siren)
       THEN /\ stack' = Continue
            /\ UNCHANGED bepc
       ELSE /\ bepc' = AwaitSlot(TRUE)
            /\ UNCHANGED stack
    /\ UNCHANGED <<graph, beResult, lookups, beFaults, depthStops, sirenArg, slots,
                   gets>>

\* await this.rateLimiter.waitForSlot() returns, in searchBySiren or in
\* fetchDirigeantsRaw: one grant of the limiter.
BESlot ==
    /\ bepc \in {"slot", "rslot"}
    /\ slots' = slots + 1
    /\ bepc' = IF bepc = "slot" THEN "granted" ELSE "rgranted"
    /\ UNCHANGED <<graph, stack, sirensVisites, beResult, lookups, beFaults,
                   depthStops, sirenArg, gets>>

\* this.client.get('/search', ...) is sent, by searchBySiren or by
\* fetchDirigeantsRaw.
BEGet ==
    /\ bepc \in {"granted", "rgranted"}
    /\ gets' = gets + 1
    /\ IF bepc = "granted"
       THEN /\ bepc' = "get"
            /\ UNCHANGED lookups
       ELSE /\ bepc' = "rget"
            /\ lookups' = Append(lookups, [siren |-> Cur.siren,
                                            profondeur |-> Top.profondeur])
    /\ UNCHANGED <<graph, stack, sirensVisites, beResult, beFaults, depthStops,
                   sirenArg, slots>>

\* The registry answers the GET of fetchDirigeantsRaw. outcome is what the
\* call does: "ok", "error" (transport error or answer without results:
\* caught, []), "malformed" (dirigeants is not a list: iterating it throws in
\* the recursive call). Without directors the branch is dropped; otherwise
\* the resolution recurses with the chain extended.
BEFetch(outcome) ==
    /\ bepc = "rget"
    /\ CASE outcome = "error" ->
              /\ stack' = Continue
              /\ beFaults' = beFaults + 1
              /\ bepc' = "resolve"
         [] outcome = "malformed" ->
              /\ stack' = <<>>
              /\ bepc' = "thrown"
              /\ beFaults' = beFaults + 1
         [] OTHER ->
              /\ stack' =
                    IF Len(Dirigeants(graph, Cur.siren)) = 0
                    THEN Continue
                    ELSE Append(stack,
                           Frame(Dirigeants(graph, Cur.siren),
                                 NouvelleChaine(Top.chaine, Cur),
                                 Top.profondeur + 1))
              /\ bepc' = "resolve"
              /\ UNCHANGED beFaults
    /\ UNCHANGED <<graph, sirensVisites, beResult, lookups, depthStops, sirenArg,
                   slots, gets>>

\* The loop of the running call is over: return beneficiaires. The caller
\* pushes them onto its own list and moves on; the outermost call returns to
\* mapToEntrepriseEnrichie.
BEReturn ==
    /\ bepc = "resolve"
    /\ Len(stack) > 0
    /\ Top.idx > Len(Top.dirs)
    /\ IF Len(stack) = 1
       THEN /\ beResult' = Top.beneficiaires
            /\ stack' = <<>>
            /\ bepc' = "done"
       ELSE /\ stack' = [SubSeq(stack, 1, Len(stack) - 1) EXCEPT
                            ![Len(stack) - 1].beneficiaires = @ \o Top.beneficiaires,
                            ![Len(stack) - 1].idx = @ + 1]
            /\ UNCHANGED <<beResult, bepc>>
    /\ UNCHANGED <<graph, sirensVisites, lookups, beFaults, depthStops, sirenArg,
                   slots, gets>>

BEStart ==
    /\ graph \in Graphs
    /\ sirenArg \in EnrichArgs
    /\ slots = 0
    /\ gets = 0
    /\ bepc = "call"
    /\ stack = <<>>
    /\ sirensVisites = {}
    /\ beResult = <<>>
    /\ lookups = <<>>
    /\ beFaults = 0
    /\ depthStops = 0

BEIdle ==
    /\ graph = <<>>
    /\ bepc = "off"
    /\ stack = <<>>
    /\ sirensVisites = {}
    /\ beResult = <<>>
    /\ lookups = <<>>
    /\ beFaults = 0
    /\ depthStops = 0
    /\ sirenArg = ""
    /\ slots = 0
    /\ gets = 0

(***************************************************************************)
(* The search orchestrators and the streaming route                        *)
(***************************************************************************)
\* const MAX_RESULTS = 10000
MAX_RESULTS == 10000

\* const MAX_ENRICHMENT_BATCH = 100, scaled to the size of the regions
\* searched here; the claims are stated for any value.
MAX_ENRICHMENT_BATCH == 2

SirenB == "987654321"

SirenC == "555666777"

\* The regions searched: an empty one; three companies with a 9-character
\* tax id; a company with three lots at two addresses, a person without tax
\* id and an owner whose tax id is not 9 characters long.
ThreeOwners ==
    << Row(Siren1, "ACME", Addr1, NoAdr, Ref1),
       Row(SirenB, "BETA", Addr1, NoAdr, Ref2),
       Row(SirenC, "GAMMA", "", Adr2, Ref3) >>

MixedOwners ==
    << Row(Siren1, "ACME", Addr1, NoAdr, Ref1),
       Row("", "DUPONT", Addr1, NoAdr, Ref2),
       Row(Siren1, "ACME", Addr1, NoAdr, Ref2),
       Row("12345", "SCI B", Addr1, NoAdr, Ref3),
       Row(Siren1, "ACME", "", Adr2, Ref3) >>

\* Owners without tax id: one without denomination either, one whose
\* denomination is NULL; and a company.
NamelessOwners ==
    << Row("", "", Null, NoAdr, NoRef),
       Row("", Null, Addr1, NoAdr, Ref1),
       Row(Siren1, "ACME", Addr1, NoAdr, Ref2) >>

SearchStores == {<<>>, ThreeOwners, MixedOwners, NamelessOwners}

\* The limit argument of the call.
Limits == {2, MAX_RESULTS + 1}

\* Bound of the exploration: the largest polygon.
MaxPoints == 4

\* What the entry of searchByPolygon / searchByPolygonStreaming makes of its
\* polygon argument p: reading polygon.length of null throws, and
\* if (!polygon || !Array.isArray(polygon) || polygon.length < 3) is invalid.
PolygonKindMutant(p) ==
    IF p < 0 THEN "null" ELSE IF p < 2 THEN "short" ELSE "ok"

PolygonKind(p) ==
    IF p < 0 THEN "null" ELSE IF p < 3 THEN "short" ELSE "ok"

\* The streaming call is made by the POST /search/geo route, which has
\* checked the polygon; the other calls are made directly.
ViaRoute == mode = "stream" /\ PolygonKind(polygon) = "ok"

\* The value a search call returns. resultats is absent from the streaming
\* result, total_dans_polygone (-1 here) from the radius one; error is
\* debug.error, "" when absent.
Res(kind, res, tp, tdp, tl, ec, err) ==
    [kind |-> kind, resultats |-> res, total_proprietaires |-> tp,
     total_dans_polygone |-> tdp, total_lots |-> tl, enriched_count |-> ec,
     error |-> err]

NoResult == Res("none", <<>>, 0, 0, 0, 0, "")

\* emptyResult of the three functions, with the debug.error given.
EmptyResult(m, err) ==
    Res("empty", <<>>, 0, IF m = "radius" THEN -1 ELSE 0, 0, 0, err)

\* The return on a polygon of fewer than 3 points.
InvalidPolygonResult(m) ==
    EmptyResult(m, IF m = "batch" THEN "Polygone invalide (moins de 3 points)"
                   ELSE "")

\* The return when the count query finds no owner.
NoOwnerResult(m) ==
    EmptyResult(m, IF m = "batch"
                   THEN "Aucun proprietaire trouve dans le polygone" ELSE "")

\* The catch clause of each function, on exception e: what leaves the call.
CatchBatchRethrow(e) == [threw |-> TRUE, result |-> NoResult]

CatchBatchSilent(e) == [threw |-> FALSE, result |-> EmptyResult("batch", "")]

\* searchByPolygon: return { ...emptyResult, debug: { wkt, error } }
CatchBatch(e) == [threw |-> FALSE, result |-> EmptyResult("batch", e)]

\* searchByPolygonStreaming: throw error
CatchStream(e) == [threw |-> TRUE, result |-> NoResult]

\* searchByRadius: return emptyResult
CatchRadius(e) == [threw |-> FALSE, result |-> EmptyResult("radius", "")]

Catch(m, e) ==
    CASE m = "batch" -> CatchBatch(e)
      [] m = "stream" -> CatchStream(e)
      [] m = "radius" -> CatchRadius(e)

\* The try body of searchBySiren on the registry's answer get and, for an
\* answer with a company, the outcome map of mapToEntrepriseEnrichie:
\* a transport error throws, an answer without results returns null, an
\* answer whose results[0] is not an object makes the mapping throw, and the
\* mapping throws when the resolution of the directors does.
TryBody(get, map) ==
    CASE get = "transport" -> "throw"
      [] get = "miss" -> "none"
      [] get = "malformed" -> "throw"
      [] get = "ok" -> IF map = "thrown" THEN "throw" ELSE "record"

\* catch (error) { ...; return null }
SearchBySirenCatchMutant(x) == x

SearchBySirenCatch(x) == IF x = "throw" THEN "none" ELSE x

\* enrichSiren(siren) = entreprisesApi.searchBySiren(siren)
EnrichSiren(get, map) == SearchBySirenCatch(TryBody(get, map))

\* try { const enriched = await enrichSiren(..); if (enriched) entreprise =
\* enriched } catch (e) {}
Entreprise(ret) == IF ret = "record" THEN "record" ELSE "none"

\* if (sirens.length > 0 && sirens[0].length === 9 [&& enrichmentCount <
\* MAX_ENRICHMENT_BATCH]): the streaming loop has no cap.
ShouldEnrich(m, sirens, count) ==
    /\ Len(sirens) > 0
    /\ Len(sirens[1]) = 9
    /\ (m = "stream" \/ count < MAX_ENRICHMENT_BATCH)

\* The owner result with its entreprise field.
WithEntreprise(r, ent) ==
    [f \in DOMAIN r \cup {"entreprise"} |->
        IF f = "entreprise" THEN ent ELSE r[f]]

\* An NDJSON record of the route (type, and index for an owner record).
Rec(type, i) == [type |-> type, index |-> i]

\* writeAndFlush(record): nothing is written once the client has closed or
\* the stream has ended.
WriteAndFlush(w, rec) ==
    IF clientClosed \/ streamEnded THEN w ELSE Append(w, rec)

\* writeAndFlush() of the records recs, one after the other.
RECURSIVE WriteAll(_, _)
WriteAll(w, recs) ==
    IF recs = <<>> THEN w
    ELSE WriteAll(WriteAndFlush(w, Head(recs)), Tail(recs))

\* A route that sends its completion record on both paths.
TerminalRecordsMutant(pc) ==
    IF pc = "returned" THEN <<Rec("summary", 0), Rec("complete", 0)>>
    ELSE <<Rec("error", 0), Rec("complete", 0)>>

\* The records the route writes after the streaming call: the summary and
\* the completion record when it returned, the error record when it threw.
TerminalRecords(pc) ==
    IF pc = "returned" THEN <<Rec("summary", 0), Rec("complete", 0)>>
    ELSE <<Rec("error", 0)>>

\* A callback that writes whatever the state of the connection.
RouteCallbackMutant(w, i) == Append(w, Rec("proprietaire", i + 1))

\* safeEnd(): res.end() is called unless the stream has been ended; n counts
\* the calls.
SafeEnd(n) == IF streamEnded THEN n ELSE n + 1

\* The callback the route passes: if (clientClosed) return; writeAndFlush(..)
RouteCallback(w, i) ==
    IF clientClosed THEN w ELSE WriteAndFlush(w, Rec("proprietaire", i + 1))

\* A callback has run while clientClosed was set: the disconnect has been
\* observed.
Observed == \E i \in DOMAIN callbacks : callbacks[i].closed

\* The call ends through exit x (of a catch clause) on exception e.
Leave(x, e) ==
    /\ result' = x.result
    /\ thrown' = IF x.threw THEN e ELSE ""
    /\ spc' = IF x.threw THEN "threw" ELSE "returned"

\* The call returns res.
Return(res) ==
    /\ result' = res
    /\ thrown' = ""
    /\ spc' = "returned"

\* pool.query() is called / completes.
Issue(q) == Append(storeCalls, [q |-> q, outcome |-> "pending"])

Complete(o) == [storeCalls EXCEPT ![Len(storeCalls)].outcome = o]

\* An iteration that hands to onResult only the owners with company data.
EmitMutant(ent) ==
    LET r == WithEntreprise(OwnerResult(proprietairesMap[index + 1], fetched),
                            ent)
    IN  /\ IF mode = "stream"
           THEN /\ callbacks' = IF ent = "none" THEN callbacks
                                ELSE Append(callbacks,
                                       [index |-> index,
                                        total |-> Len(proprietairesMap),
                                        data |-> r, closed |-> clientClosed])
                /\ written' = IF ViaRoute /\ ent # "none"
                              THEN RouteCallback(written, index)
                              ELSE written
                /\ UNCHANGED resultats
           ELSE /\ resultats' = Append(resultats, r)
                /\ UNCHANGED <<callbacks, written>>
        /\ index' = index + 1
        /\ enrichmentCount' = IF ent = "record" THEN enrichmentCount + 1
                              ELSE enrichmentCount
        /\ spc' = "loop"

\* The end of one iteration of the result loop: the owner result is pushed
\* (batch, radius) or handed to onResult (streaming), with ent as entreprise.
Emit(ent) ==
    LET r == WithEntreprise(OwnerResult(proprietairesMap[index + 1], fetched),
                            ent)
    IN  /\ IF mode = "stream"
           THEN /\ callbacks' = Append(callbacks,
                       [index |-> index, total |-> Len(proprietairesMap),
                        data |-> r, closed |-> clientClosed])
                /\ written' = IF ViaRoute THEN RouteCallback(written, index)
                              ELSE written
                /\ UNCHANGED resultats
           ELSE /\ resultats' = Append(resultats, r)
                /\ UNCHANGED <<callbacks, written>>
        /\ index' = index + 1
        /\ enrichmentCount' = IF ent = "record" THEN enrichmentCount + 1
                              ELSE enrichmentCount
        /\ spc' = "loop"

\* searchByPolygon / searchByPolygonStreaming up to the count query: the
\* entry log reads polygon.length (a TypeError on null, inside the try), a
\* polygon of fewer than 3 points returns the empty result, else the count
\* query is issued.
SEValidate ==
    /\ spc = "start"
    /\ mode \in {"batch", "stream"}
    /\ CASE PolygonKind(polygon) = "null" ->
              /\ Leave(Catch(mode, "TypeError"), "TypeError")
              /\ UNCHANGED storeCalls
         [] PolygonKind(polygon) = "short" ->
              /\ Return(InvalidPolygonResult(mode))
              /\ UNCHANGED storeCalls
         [] PolygonKind(polygon) = "ok" ->
              /\ spc' = "count"
              /\ storeCalls' = Issue("count")
              /\ UNCHANGED <<result, thrown>>
    /\ UNCHANGED <<mode, polygon, request, reply, ends, totalDansPolygone, index, enrichmentCount,
                   regCalls, enrichLog, callbacks, clientClosed, streamEnded,
                   written, closedAt, aggVars>>

\* The largest radius the route accepts: radius_meters > 50000
MaxRadiusMeters == 50000

\* A JSON value of the request body: its typeof and, for a number, its value.
Num(v) == [type |-> "number", value |-> v]

NotANumber == [type |-> "undefined", value |-> 0]

\* The request bodies explored.
RadiusRequests ==
    [coords : {"numbers", "other"},
     radius_meters : {Num(-1), Num(0), Num(1), Num(MaxRadiusMeters),
                      Num(MaxRadiusMeters + 1), NotANumber}]

\* typeof longitude !== 'number' || typeof latitude !== 'number'
CoordsRejected(req) == req.coords # "numbers"

\* typeof radius_meters !== 'number' || radius_meters <= 0 ||
\* radius_meters > 50000
RadiusRejectedMutant(r) == r.type # "number" \/ r.value <= 0

RadiusRejected(r) ==
    r.type # "number" \/ r.value <= 0 \/ r.value > MaxRadiusMeters

\* POST /search/geo/radius, the only caller of searchByRadius: the body is
\* validated and rejected with a 400, or searchByRadius is called; it has no
\* validation and no count query of its own and issues its row query.
SERadiusStart ==
    /\ spc = "start"
    /\ mode = "radius"
    /\ IF CoordsRejected(request)
       THEN /\ reply' = "INVALID_COORDINATES"
            /\ spc' = "rejected"
            /\ UNCHANGED storeCalls
       ELSE IF RadiusRejected(request.radius_meters)
       THEN /\ reply' = "INVALID_RADIUS"
            /\ spc' = "rejected"
            /\ UNCHANGED storeCalls
       ELSE /\ spc' = "fetch"
            /\ storeCalls' = Issue("fetch")
            /\ UNCHANGED reply
    /\ UNCHANGED <<mode, polygon, request, ends, totalDansPolygone, index,
                   enrichmentCount, result, thrown, regCalls, enrichLog,
                   callbacks, clientClosed, streamEnded, written, closedAt,
                   aggVars>>

\* await pool.query(countQuery, [wkt]) completes: it rejects (fault), or
\* gives the number of owners; zero returns the empty result, else the row
\* query is issued.
SECount(o) ==
    /\ spc = "count"
    /\ IF o = "fault"
       THEN /\ Leave(Catch(mode, "store fault"), "store fault")
            /\ storeCalls' = Complete("fault")
            /\ UNCHANGED totalDansPolygone
       ELSE /\ totalDansPolygone' = CountDistinct(store)
            /\ IF CountDistinct(store) = 0
               THEN /\ Return(NoOwnerResult(mode))
                    /\ storeCalls' = Complete("ok")
               ELSE /\ spc' = "fetch"
                    /\ storeCalls' = Append(Complete("ok"),
                                        [q |-> "fetch", outcome |-> "pending"])
                    /\ UNCHANGED <<result, thrown>>
    /\ UNCHANGED <<mode, polygon, request, reply, ends, index, enrichmentCount, regCalls, enrichLog,
                   callbacks, clientClosed, streamEnded, written, closedAt,
                   aggVars>>

\* await pool.query(query, [wkt, effectiveLimit]) completes: it rejects, or
\* gives the rows, which are grouped by owner; searchByRadius returns the
\* empty result when there is no row.
SEFetch(o) ==
    /\ spc = "fetch"
    /\ storeCalls' = Complete(o)
    /\ IF o = "fault"
       THEN /\ Leave(Catch(mode, "store fault"), "store fault")
            /\ UNCHANGED <<chosenKeys, fetchedIdx, fetched, proprietairesMap>>
       ELSE \E K \in LimitedKeySets(store, ownerCap) :
              LET rows == Pick(store, SelectedIdx(store, K), 1)
              IN  /\ chosenKeys' = K
                  /\ fetchedIdx' = SelectedIdx(store, K)
                  /\ fetched' = rows
                  /\ IF mode = "radius" /\ Len(rows) = 0
                     THEN /\ Return(EmptyResult("radius", ""))
                          /\ UNCHANGED proprietairesMap
                     ELSE /\ proprietairesMap' = GroupByOwner(rows, Len(rows))
                          /\ spc' = "loop"
                          /\ UNCHANGED <<result, thrown>>
    /\ UNCHANGED <<mode, polygon, request, reply, ends, totalDansPolygone, index, enrichmentCount,
                   regCalls, enrichLog, callbacks, clientClosed, streamEnded,
                   written, closedAt, store, ownerCap, aggpc, resultats>>

\* The loop with the await of enrichSiren() left out: the next iteration
\* starts while the GET is in flight.
AtOwnerMutant == spc \in {"loop", "get"} /\ index < Len(proprietairesMap)

\* The owner the result loop is at: the for loop awaits enrichSiren(), so an
\* iteration starts only when the previous one has ended.
AtOwner == spc = "loop" /\ index < Len(proprietairesMap)

\* The loop calls enrichSiren(sirens[0]): searchBySiren passes its length
\* guard, takes a slot of the rate limiter and sends the GET.
SELoopEnrich ==
    /\ AtOwner
    /\ ShouldEnrich(mode, proprietairesMap[index + 1].sirens, enrichmentCount)
    /\ regCalls' = Append(regCalls,
           [siren |-> proprietairesMap[index + 1].sirens[1],
            owner |-> index + 1, closed |-> clientClosed,
            observed |-> Observed, returned |-> Len(enrichLog),
            emitted |-> Len(callbacks)])
    /\ spc' = "get"
    /\ UNCHANGED <<mode, polygon, request, reply, ends, totalDansPolygone, index, enrichmentCount,
                   result, thrown, storeCalls, enrichLog, callbacks,
                   clientClosed, streamEnded, written, closedAt, aggVars>>

\* The owner is not enriched: the iteration ends without entreprise.
SELoopSkip ==
    /\ AtOwner
    /\ ~ShouldEnrich(mode, proprietairesMap[index + 1].sirens, enrichmentCount)
    /\ Emit("none")
    /\ UNCHANGED <<mode, polygon, request, reply, ends, totalDansPolygone, result, thrown,
                   storeCalls, regCalls, enrichLog, clientClosed, streamEnded,
                   closedAt, store, ownerCap, aggpc, chosenKeys, fetchedIdx,
                   fetched, proprietairesMap>>

\* enrichSiren has returned (or thrown) ret for the answers get and map: it
\* is logged and the iteration ends.
Enriched(get, map) ==
    LET ret == EnrichSiren(get, map)
    IN  /\ enrichLog' = Append(enrichLog,
               [owner |-> index + 1, get |-> get, map |-> map, ret |-> ret])
        /\ Emit(Entreprise(ret))

\* The registry answers the GET of searchBySiren: a company (the mapping
\* starts), no result, a malformed answer, or a transport error.
SEGet(o) ==
    /\ spc = "get"
    /\ IF o = "ok"
       THEN /\ spc' = "map"
            /\ UNCHANGED <<index, enrichmentCount, enrichLog, callbacks,
                           written, resultats>>
       ELSE Enriched(o, "")
    /\ UNCHANGED <<mode, polygon, request, reply, ends, totalDansPolygone, result, thrown,
                   storeCalls, regCalls, clientClosed, streamEnded, closedAt,
                   store, ownerCap, aggpc, chosenKeys, fetchedIdx, fetched,
                   proprietairesMap>>

\* mapToEntrepriseEnrichie ends: the resolution of the directors is done
\* without a failed lookup ("done"), done with a branch dropped after a
\* lookup that failed and was caught in fetchDirigeantsRaw ("pruned"), or it
\* has thrown on a director list that cannot be iterated ("thrown").
SEMap(o) ==
    /\ spc = "map"
    /\ Enriched("ok", o)
    /\ UNCHANGED <<mode, polygon, request, reply, ends, totalDansPolygone, result, thrown,
                   storeCalls, regCalls, clientClosed, streamEnded, closedAt,
                   store, ownerCap, aggpc, chosenKeys, fetchedIdx, fetched,
                   proprietairesMap>>

\* The loop is over: the call returns its result.
SEReturn ==
    /\ spc = "loop"
    /\ index = Len(proprietairesMap)
    /\ Return(CASE mode = "batch" ->
                     Res("full", resultats, Len(resultats), totalDansPolygone,
                         Len(fetched), enrichmentCount, "")
                [] mode = "stream" ->
                     Res("full", <<>>, Len(proprietairesMap),
                         totalDansPolygone, Len(fetched), enrichmentCount, "")
                [] mode = "radius" ->
                     Res("full", resultats, Len(resultats), -1, Len(fetched),
                         enrichmentCount, ""))
    /\ UNCHANGED <<mode, polygon, request, reply, ends, totalDansPolygone, index, enrichmentCount,
                   storeCalls, regCalls, enrichLog, callbacks, clientClosed,
                   streamEnded, written, closedAt, aggVars>>

\* res.on('close'): the client disconnects while the call is suspended on a
\* store query or on the registry.
SEClientClose ==
    /\ ViaRoute
    /\ spc \in {"count", "fetch", "get", "map"}
    /\ ~clientClosed
    /\ ~streamEnded
    /\ clientClosed' = TRUE
    /\ closedAt' = Len(callbacks)
    /\ UNCHANGED <<mode, polygon, request, reply, ends, spc, totalDansPolygone, index,
                   enrichmentCount, result, thrown, storeCalls, regCalls,
                   enrichLog, callbacks, streamEnded, written, aggVars>>

\* The route after the streaming call: summary and complete records when it
\* returned, an error record when it threw, nothing once the client has
\* closed; then safeEnd().
SERouteEnd ==
    /\ ViaRoute
    /\ spc \in {"returned", "threw"}
    /\ written' = IF clientClosed THEN written
                  ELSE WriteAll(written, TerminalRecords(spc))
    /\ ends' = SafeEnd(ends)
    /\ streamEnded' = TRUE
    /\ spc' = "ended"
    /\ UNCHANGED <<mode, polygon, request, reply, totalDansPolygone, index, enrichmentCount,
                   result, thrown, storeCalls, regCalls, enrichLog, callbacks,
                   clientClosed, closedAt, aggVars>>

\* A search is called; the streaming route has written its start record.
SEStart ==
    /\ mode \in {"batch", "stream", "radius"}
    /\ polygon \in -1..MaxPoints
    /\ mode = "radius" => polygon = 3
    /\ request \in RadiusRequests
    /\ mode # "radius" => request = [coords |-> "numbers", radius_meters |-> Num(1)]
    /\ reply = ""
    /\ ends = 0
    /\ store \in SearchStores
    /\ ownerCap \in {Min(l, MAX_RESULTS) : l \in Limits}
    /\ aggpc = "off"
    /\ chosenKeys = {}
    /\ fetchedIdx = {}
    /\ fetched = <<>>
    /\ proprietairesMap = <<>>
    /\ resultats = <<>>
    /\ spc = "start"
    /\ totalDansPolygone = 0
    /\ index = 0
    /\ enrichmentCount = 0
    /\ result = NoResult
    /\ thrown = ""
    /\ storeCalls = <<>>
    /\ regCalls = <<>>
    /\ enrichLog = <<>>
    /\ callbacks = <<>>
    /\ clientClosed = FALSE
    /\ streamEnded = FALSE
    /\ written = IF ViaRoute THEN <<Rec("start", 0)>> ELSE <<>>
    /\ closedAt = -1

SEIdle ==
    /\ mode = "off"
    /\ polygon = 3
    /\ spc = "off"
    /\ totalDansPolygone = 0
    /\ index = 0
    /\ enrichmentCount = 0
    /\ result = NoResult
    /\ thrown = ""
    /\ storeCalls = <<>>
    /\ regCalls = <<>>
    /\ enrichLog = <<>>
    /\ callbacks = <<>>
    /\ clientClosed = FALSE
    /\ streamEnded = FALSE
    /\ written = <<>>
    /\ closedAt = -1
    /\ request = [coords |-> "numbers", radius_meters |-> Num(1)]
    /\ reply = ""
    /\ ends = 0

(***************************************************************************)
(* BAN import: startBanImport and its background pipeline                  *)
(***************************************************************************)
\* Bound of the exploration: the number of startBanImport() calls.
NImportCalls == 2

ImportCalls == 1..NImportCalls

\* The negation of the test of line 493: the status lets an import start.
Startable(st) == st \in {"idle", "completed", "error"}

\* The phases in which a pipeline downloads, decompresses, imports or indexes.
PipelinePhases == {"downloading", "decompressing", "importing", "indexing"}

\* startBanImport() is called: it is refused at once on a status that is not
\* idle, completed or error, else it awaits checkPostGIS().
BanCall(c) ==
    /\ banpc[c] = "new"
    /\ calledAt' = [calledAt EXCEPT ![c] = importStatus]
    /\ IF Startable(importStatus)
       THEN /\ banpc' = [banpc EXCEPT ![c] = "postgis"]
            /\ UNCHANGED banReturn
       ELSE /\ banpc' = [banpc EXCEPT ![c] = "returned"]
            /\ banReturn' = [banReturn EXCEPT ![c] = "busy"]
    /\ UNCHANGED <<importStatus, pipeline>>

\* checkPostGIS() has answered: the call returns without PostGIS, else it
\* awaits checkBanTable().
BanCheckPostGIS(c, installed) ==
    /\ banpc[c] = "postgis"
    /\ IF installed
       THEN /\ banpc' = [banpc EXCEPT ![c] = "table"]
            /\ UNCHANGED banReturn
       ELSE /\ banpc' = [banpc EXCEPT ![c] = "returned"]
            /\ banReturn' = [banReturn EXCEPT ![c] = "no postgis"]
    /\ UNCHANGED <<importStatus, pipeline, calledAt>>

\* checkBanTable() has answered: the call returns without the table; else it
\* resets importState, starts the background pipeline, which runs up to the
\* first await of downloadBAN (status = 'downloading'), and returns success.
BanCheckTable(c, exists) ==
    /\ banpc[c] = "table"
    /\ banpc' = [banpc EXCEPT ![c] = "returned"]
    /\ IF exists
       THEN /\ importStatus' = "downloading"
            /\ pipeline' = [pipeline EXCEPT ![c] = "downloading"]
            /\ banReturn' = [banReturn EXCEPT ![c] = "started"]
       ELSE /\ banReturn' = [banReturn EXCEPT ![c] = "no table"]
            /\ UNCHANGED <<importStatus, pipeline>>
    /\ UNCHANGED calledAt

\* catch (error) of the pipeline: importState.status = 'error'.
BanFail(c) ==
    /\ importStatus' = "error"
    /\ pipeline' = [pipeline EXCEPT ![c] = "failed"]

\* downloadBAN() ends: decompressBAN() starts, or the download has thrown.
BanDownload(c, ok) ==
    /\ pipeline[c] = "downloading"
    /\ IF ok
       THEN /\ importStatus' = "decompressing"
            /\ pipeline' = [pipeline EXCEPT ![c] = "decompressing"]
       ELSE BanFail(c)
    /\ UNCHANGED <<banpc, banReturn, calledAt>>

\* decompressBAN() ends: importCSV() starts, or it has thrown.
BanDecompress(c, ok) ==
    /\ pipeline[c] = "decompressing"
    /\ IF ok
       THEN /\ importStatus' = "importing"
            /\ pipeline' = [pipeline EXCEPT ![c] = "importing"]
       ELSE BanFail(c)
    /\ UNCHANGED <<banpc, banReturn, calledAt>>

\* importCSV() ends: createIndexes() starts (the status stays 'importing'),
\* or it has thrown.
BanImportCSV(c, ok) ==
    /\ pipeline[c] = "importing"
    /\ IF ok
       THEN /\ pipeline' = [pipeline EXCEPT ![c] = "indexing"]
            /\ UNCHANGED importStatus
       ELSE BanFail(c)
    /\ UNCHANGED <<banpc, banReturn, calledAt>>

\* createIndexes() ends (it catches its own errors): the status is set to
\* 'completed' and the statistics are inserted.
BanCreateIndexes(c) ==
    /\ pipeline[c] = "indexing"
    /\ importStatus' = "completed"
    /\ pipeline' = [pipeline EXCEPT ![c] = "saving"]
    /\ UNCHANGED <<banpc, banReturn, calledAt>>

\* The INSERT of the statistics ends: the pipeline is over, with status
\* 'error' when the insert has thrown.
BanSaveStats(c, ok) ==
    /\ pipeline[c] = "saving"
    /\ IF ok
       THEN /\ pipeline' = [pipeline EXCEPT ![c] = "done"]
            /\ UNCHANGED importStatus
       ELSE BanFail(c)
    /\ UNCHANGED <<banpc, banReturn, calledAt>>

\* The module is loaded: importState.status = 'idle', no call is made yet.
BanStart ==
    /\ importStatus = "idle"
    /\ banpc = [c \in ImportCalls |-> "new"]
    /\ banReturn = [c \in ImportCalls |-> ""]
    /\ pipeline = [c \in ImportCalls |-> "off"]
    /\ calledAt = [c \in ImportCalls |-> ""]

BanIdle ==
    /\ importStatus = "idle"
    /\ banpc = <<>>
    /\ banReturn = <<>>
    /\ pipeline = <<>>
    /\ calledAt = <<>>

(***************************************************************************)
(* Specifications                                                          *)
(***************************************************************************)
RLNext ==
    \/ \E c \in Callers : RLCall(c) /\ UNCHANGED <<aggVars, beVars, seVars, banVars>>
    \/ \E c \in Callers : RLWake(c) /\ UNCHANGED <<aggVars, beVars, seVars, banVars>>
    \/ RLTick /\ UNCHANGED <<aggVars, beVars, seVars, banVars>>

RLInit == RLStart /\ AggIdle /\ BEIdle /\ SEIdle /\ BanIdle

SpecRL == RLInit /\ [][RLNext]_vars

RLFNext ==
    \/ \E c \in Callers : RLFCall(c) /\ UNCHANGED <<aggVars, beVars, seVars, banVars>>
    \/ \E c \in Callers : RLFWake(c) /\ UNCHANGED <<aggVars, beVars, seVars, banVars>>
    \/ RLFTick /\ UNCHANGED <<aggVars, beVars, seVars, banVars>>

\* Time passes and every timer fires; nothing is assumed of the callers,
\* which call when they please.
RLFairness ==
    /\ WF_vars(RLFTick /\ UNCHANGED <<aggVars, beVars, seVars, banVars>>)
    /\ \A c \in Callers :
          WF_vars(RLFWake(c) /\ UNCHANGED <<aggVars, beVars, seVars, banVars>>)

SpecRLFair == RLInit /\ [][RLFNext]_vars /\ RLFairness

AggNext ==
    \/ AggFetch /\ UNCHANGED <<rlVars, beVars, seVars, banVars>>
    \/ AggAggregate /\ UNCHANGED <<rlVars, beVars, seVars, banVars>>
    \/ AggGroup /\ UNCHANGED <<rlVars, beVars, seVars, banVars>>

AggInit == AggStart /\ RLIdle /\ BEIdle /\ SEIdle /\ BanIdle

SpecAgg == AggInit /\ [][AggNext]_vars

BENext ==
    \/ BEMap /\ UNCHANGED <<rlVars, aggVars, seVars, banVars>>
    \/ BEPerson /\ UNCHANGED <<rlVars, aggVars, seVars, banVars>>
    \/ BESkip /\ UNCHANGED <<rlVars, aggVars, seVars, banVars>>
    \/ BEDepthStop /\ UNCHANGED <<rlVars, aggVars, seVars, banVars>>
    \/ BECycleStop /\ UNCHANGED <<rlVars, aggVars, seVars, banVars>>
    \/ BEVisit /\ UNCHANGED <<rlVars, aggVars, seVars, banVars>>
    \/ BESlot /\ UNCHANGED <<rlVars, aggVars, seVars, banVars>>
    \/ BEGet /\ UNCHANGED <<rlVars, aggVars, seVars, banVars>>
    \/ \E o \in {"ok", "error", "malformed"} :
          BEFetch(o) /\ UNCHANGED <<rlVars, aggVars, seVars, banVars>>
    \/ BECall /\ UNCHANGED <<rlVars, aggVars, seVars, banVars>>
    \/ \E o \in {"ok", "miss", "error"} :
          BEAnswer(o) /\ UNCHANGED <<rlVars, aggVars, seVars, banVars>>
    \/ BEReturn /\ UNCHANGED <<rlVars, aggVars, seVars, banVars>>

BEInit == BEStart /\ RLIdle /\ AggIdle /\ SEIdle /\ BanIdle

\* Every awaited step of the resolution completes: the registry call has a
\* timeout and the loop steps are synchronous.
SpecBE == BEInit /\ [][BENext]_vars /\ WF_vars(BENext)

SENext ==
    \/ SEValidate /\ UNCHANGED <<rlVars, beVars, banVars>>
    \/ SERadiusStart /\ UNCHANGED <<rlVars, beVars, banVars>>
    \/ \E o \in {"ok", "fault"} : SECount(o) /\ UNCHANGED <<rlVars, beVars, banVars>>
    \/ \E o \in {"ok", "fault"} : SEFetch(o) /\ UNCHANGED <<rlVars, beVars, banVars>>
    \/ SELoopEnrich /\ UNCHANGED <<rlVars, beVars, banVars>>
    \/ SELoopSkip /\ UNCHANGED <<rlVars, beVars, banVars>>
    \/ \E o \in {"ok", "miss", "malformed", "transport"} :
          SEGet(o) /\ UNCHANGED <<rlVars, beVars, banVars>>
    \/ \E o \in {"done", "pruned", "thrown"} :
          SEMap(o) /\ UNCHANGED <<rlVars, beVars, banVars>>
    \/ SEReturn /\ UNCHANGED <<rlVars, beVars, banVars>>
    \/ SEClientClose /\ UNCHANGED <<rlVars, beVars, banVars>>
    \/ SERouteEnd /\ UNCHANGED <<rlVars, beVars, banVars>>

SEInit == SEStart /\ RLIdle /\ BEIdle /\ BanIdle

SpecSearch == SEInit /\ [][SENext]_vars

\* The synchronous steps of the handler that start the search, start an
\* enrichment, return and end the response.
SEProgress ==
    \/ SEValidate /\ UNCHANGED <<rlVars, beVars, banVars>>
    \/ SERadiusStart /\ UNCHANGED <<rlVars, beVars, banVars>>
    \/ SELoopEnrich /\ UNCHANGED <<rlVars, beVars, banVars>>
    \/ SEReturn /\ UNCHANGED <<rlVars, beVars, banVars>>
    \/ SERouteEnd /\ UNCHANGED <<rlVars, beVars, banVars>>

\* The search awaits the store or the registry, or is to end an iteration of
\* the result loop without enrichment: SECount, SEFetch, SEGet, SEMap or
\* SELoopSkip is enabled. Each of them is enabled whenever its position is
\* reached, and its step leaves the position or moves to the next owner.
SEPending ==
    \/ spc \in {"count", "fetch", "get", "map"}
    \/ AtOwner /\ ~ShouldEnrich(mode, proprietairesMap[index + 1].sirens,
                                enrichmentCount)

\* The synchronous steps of the handler run; the store and the registry
\* answer, with a result or with an error (the GET has a timeout), and the
\* loop goes on, so that the search is not pending for ever. The client may
\* never close.
SpecSearchFair ==
    SEInit /\ [][SENext]_vars /\ WF_vars(SEProgress) /\ []<>~SEPending


BanNext ==
    \/ \E c \in ImportCalls :
          BanCall(c) /\ UNCHANGED <<rlVars, aggVars, beVars, seVars>>
    \/ \E c \in ImportCalls, o \in BOOLEAN :
          BanCheckPostGIS(c, o) /\ UNCHANGED <<rlVars, aggVars, beVars, seVars>>
    \/ \E c \in ImportCalls, o \in BOOLEAN :
          BanCheckTable(c, o) /\ UNCHANGED <<rlVars, aggVars, beVars, seVars>>
    \/ \E c \in ImportCalls, o \in BOOLEAN :
          BanDownload(c, o) /\ UNCHANGED <<rlVars, aggVars, beVars, seVars>>
    \/ \E c \in ImportCalls, o \in BOOLEAN :
          BanDecompress(c, o) /\ UNCHANGED <<rlVars, aggVars, beVars, seVars>>
    \/ \E c \in ImportCalls, o \in BOOLEAN :
          BanImportCSV(c, o) /\ UNCHANGED <<rlVars, aggVars, beVars, seVars>>
    \/ \E c \in ImportCalls :
          BanCreateIndexes(c) /\ UNCHANGED <<rlVars, aggVars, beVars, seVars>>
    \/ \E c \in ImportCalls, o \in BOOLEAN :
          BanSaveStats(c, o) /\ UNCHANGED <<rlVars, aggVars, beVars, seVars>>

BanInit == BanStart /\ RLIdle /\ AggIdle /\ BEIdle /\ SEIdle

SpecBan == BanInit /\ [][BanNext]_vars


(***************************************************************************)
(* Claims                                                                  *)
(***************************************************************************)
\* Number of grants whose time lies in the trailing window (t - WindowMs, t].
GrantsInWindow(t) ==
    Cardinality({i \in DOMAIN grants : t - WindowMs < grants[i] /\ grants[i] <= t})

\* C1: in every trailing window of WindowMs milliseconds, whatever the
\* interleaving of the callers sharing the limiter, the number of grants is
\* at most MaxRequests.
C1_RateBound == \A t \in 0..MaxTime : GrantsInWindow(t) <= MaxRequests

\* C1 witness: a burst was admitted up to the limit inside one window while
\* another caller had to sleep, and a later grant happened after it woke.
C1_Witness ==
    /\ \E t \in 0..MaxTime : GrantsInWindow(t) = MaxRequests
    /\ \E c \in Callers : rlpc[c] = "sleeping"
    /\ Len(grants) > MaxRequests


\* The owner key as the specification defines it: the tax id when non-empty,
\* else the denomination when non-empty, else the sentinel.
ClaimOwnerKey(r) ==
    IF r.siren # "" /\ r.siren # Null THEN r.siren
    ELSE IF r.denomination # "" /\ r.denomination # Null THEN r.denomination
    ELSE "inconnu"

\* The entries of the owner map that hold fetched row i.
EntriesOf(i) ==
    {k \in DOMAIN proprietairesMap : i \in Range(proprietairesMap[k].proprietes)}

\* C2: once the fetched rows are aggregated, every fetched row lies in exactly
\* one owner entry (and once in it), and two fetched rows lie in the same
\* entry if and only if their owner keys are equal.
C2_OwnerIdentity ==
    aggpc \in {"group", "done"} =>
        /\ \A i \in DOMAIN fetched :
              /\ Cardinality(EntriesOf(i)) = 1
              /\ \A k \in EntriesOf(i) :
                    Cardinality({n \in DOMAIN proprietairesMap[k].proprietes :
                                    proprietairesMap[k].proprietes[n] = i}) = 1
        /\ \A i, j \in DOMAIN fetched :
              (EntriesOf(i) = EntriesOf(j))
                  <=> (ClaimOwnerKey(fetched[i]) = ClaimOwnerKey(fetched[j]))
        /\ \A k \in DOMAIN proprietairesMap :
              Range(proprietairesMap[k].proprietes) \subseteq DOMAIN fetched
        /\ aggpc = "done" =>
              /\ Len(resultats) = Len(proprietairesMap)
              /\ \A k \in DOMAIN resultats :
                    resultats[k].nombre_lots = Len(proprietairesMap[k].proprietes)

\* C2 witness: two rows with the same tax id and different denominations were
\* merged into one owner while a row without tax id and denomination went to
\* another owner.
C2_Witness ==
    /\ aggpc = "done"
    /\ \E i, j \in DOMAIN fetched :
          /\ i # j
          /\ EntriesOf(i) = EntriesOf(j)
          /\ fetched[i].denomination # fetched[j].denomination
    /\ \E i \in DOMAIN fetched :
          /\ ClaimOwnerKey(fetched[i]) = "inconnu"
          /\ \E j \in DOMAIN fetched : EntriesOf(i) # EntriesOf(j)

\* The distinct owner keys of the store rows at the positions idx.
OwnerKeysAt(idx) == {ClaimOwnerKey(store[i]) : i \in idx}

\* C3: rowsIn returns every region row of min(ownerCap, number of owners)
\* distinct owner keys and no other row: an owner with a returned row has all
\* its region rows returned.
C3_OwnerCapSlicing ==
    aggpc # "fetch" =>
        /\ \A i \in DOMAIN store :
              (\E j \in fetchedIdx : ClaimOwnerKey(store[j]) = ClaimOwnerKey(store[i]))
                  => i \in fetchedIdx
        /\ Cardinality(OwnerKeysAt(fetchedIdx))
              = Min(ownerCap, Cardinality(OwnerKeysAt(DOMAIN store)))

\* The address key groupProprietesParAdresse files a property under.
AddrKey(prop) ==
    IF prop.adresse_complete # "" THEN prop.adresse_complete ELSE "unknown"

\* references_cadastrales and nombre_lots of the group of address a in g
\* (empty and 0 while the group does not exist).
RefsOf(g, a) ==
    IF GroupFind(g, a, 1) = 0 THEN <<>>
    ELSE g[GroupFind(g, a, 1)].references_cadastrales

LotsOf(g, a) ==
    IF GroupFind(g, a, 1) = 0 THEN 0 ELSE g[GroupFind(g, a, 1)].nombre_lots

Occurrences(s, x) == Cardinality({i \in DOMAIN s : s[i] = x})

\* The properties of owner entry k, and their grouping after the first n.
PropsOf(k) == EntryProps(proprietairesMap[k], fetched)

GroupedAfter(k, n) == GroupProprietesParAdresse(PropsOf(k), n)

\* Feeding property n of owner k when its reference is already present in its
\* address group: no new entry, one more lot.
FeedPresent(k, n) ==
    LET p == PropsOf(k)[n]
        before == GroupedAfter(k, n - 1)
        after == GroupedAfter(k, n)
    IN p.reference_complete \in Range(RefsOf(before, AddrKey(p)))
         => /\ RefsOf(after, AddrKey(p)) = RefsOf(before, AddrKey(p))
            /\ LotsOf(after, AddrKey(p)) = LotsOf(before, AddrKey(p)) + 1

\* Properties n and n+1 of owner k are the same reference at the same address.
SameTwice(k, n) ==
    LET p == PropsOf(k)[n]
        q == PropsOf(k)[n + 1]
    IN /\ AddrKey(p) = AddrKey(q)
       /\ p.reference_complete = q.reference_complete

\* Feeding the same reference twice: exactly one entry, two more lots.
FeedTwice(k, n) ==
    LET p == PropsOf(k)[n]
        before == GroupedAfter(k, n - 1)
        after == GroupedAfter(k, n + 1)
    IN /\ Occurrences(RefsOf(after, AddrKey(p)), p.reference_complete) = 1
       /\ LotsOf(after, AddrKey(p)) = LotsOf(before, AddrKey(p)) + 2

\* Feeding a property whose reference_complete is empty: no entry, one more lot.
FeedEmpty(k, n) ==
    LET p == PropsOf(k)[n]
        before == GroupedAfter(k, n - 1)
        after == GroupedAfter(k, n)
    IN p.reference_complete = ""
         => /\ RefsOf(after, AddrKey(p)) = RefsOf(before, AddrKey(p))
            /\ LotsOf(after, AddrKey(p)) = LotsOf(before, AddrKey(p)) + 1

RECURSIVE ReachFrom(_, _)
ReachFrom(g, S) ==
    LET step == {d.siren : d \in UNION {Range(g[e]) : e \in S \cap DOMAIN g}}
        next == S \cup {id \in step : \E e \in S \cap DOMAIN g :
                           \E d \in Range(g[e]) :
                               /\ d.siren = id
                               /\ d.type_dirigeant = "personne morale"
                               /\ id # "" /\ Len(id) = 9}
    IN IF next = S THEN S ELSE ReachFrom(g, next)

\* How many times the entities of S list the natural person called name.
RECURSIVE ListedCount(_, _, _)
ListedCount(g, S, name) ==
    IF S = {} THEN 0
    ELSE LET e == CHOOSE x \in S : TRUE IN
         Cardinality({i \in DOMAIN g[e] :
                         /\ g[e][i].type_dirigeant = "personne physique"
                         /\ g[e][i].nom = name})
           + ListedCount(g, S \ {e}, name)

PersonNames == {PersonName(k) : k \in 0..ChainLen}

\* Every beneficiary built so far: returned, or held by a running call.
Emitted ==
    Range(beResult) \cup UNION {Range(stack[i].beneficiaires) : i \in DOMAIN stack}

C5_Safe ==
    /\ \A i, j \in DOMAIN lookups : i # j => lookups[i].siren # lookups[j].siren
    /\ \A i \in DOMAIN lookups :
          lookups[i].siren # RootId /\ lookups[i].siren \in sirensVisites
    /\ bepc \in {"resolve", "done"} => RootId \in sirensVisites
    /\ (bepc = "done" /\ beFaults = 0 /\ depthStops = 0) =>
          \A name \in PersonNames :
              Cardinality({i \in DOMAIN beResult : beResult[i].nom = name})
                  = ListedCount(graph, ReachFrom(graph, {RootId}) \cap DOMAIN graph,
                                name)
    /\ (bepc = "done" /\ beFaults = 0 /\ graph = CycleGraph) =>
          /\ Len(beResult) = 2
          /\ beResult[1].nom = PersonName(0) /\ beResult[1].chaine_controle = <<>>
          /\ beResult[2].nom = PersonName(1)
          /\ Len(beResult[2].chaine_controle) = 1
          /\ beResult[2].chaine_controle[1].siren = EntId(1)

\* C5: the resolution terminates on every director graph, cyclic ones
\* included; no entity id is looked up twice, the original owner's id (the
\* seed of the visited set) is never looked up, and with no failed lookup and
\* no depth cut the result lists each natural person as many times as the
\* entities reachable from the owner list it (on A -> B -> A: the person of A,
\* then the person of B).
C5_CycleTermination ==
    []C5_Safe /\ <>(bepc \in {"done", "thrown", "none"})

\* C5 witness: the resolution of A -> B -> A ended after one lookup (B), with
\* the two natural persons.
C5_Witness ==
    /\ graph = CycleGraph
    /\ bepc = "done"
    /\ beFaults = 0
    /\ Len(lookups) = 1
    /\ Len(beResult) = 2

\* C6: no lookup is made at depth MAX_DEPTH or deeper and no beneficiary has a
\* control chain longer than MAX_DEPTH; on the chain of MAX_DEPTH + 3 nested
\* entities under the owner, only the owner's own person and the persons of
\* the first MAX_DEPTH entities of the chain are emitted (all of them when no
\* lookup fails), and only those entities are looked up.
C6_DepthCap ==
    /\ \A i \in DOMAIN lookups : lookups[i].profondeur < MAX_DEPTH
    /\ \A i \in DOMAIN stack :
          /\ stack[i].profondeur <= MAX_DEPTH
          /\ Len(stack[i].chaine) = stack[i].profondeur
    /\ \A b \in Emitted : Len(b.chaine_controle) <= MAX_DEPTH
    /\ graph = ChainGraph =>
          /\ \A b \in Emitted : b.nom \in {PersonName(k) : k \in 0..MAX_DEPTH}
          /\ \A i \in DOMAIN lookups :
                lookups[i].siren \in {EntId(k) : k \in 1..MAX_DEPTH}
          /\ (bepc = "done" /\ beFaults = 0) =>
                /\ Len(beResult) = MAX_DEPTH + 1
                /\ \A k \in 0..MAX_DEPTH :
                      /\ beResult[k + 1].nom = PersonName(k)
                      /\ Len(beResult[k + 1].chaine_controle) = k

\* C6 witness: the chain was resolved without a failed lookup, the branch
\* below the MAX_DEPTH-th entity was cut, and the person of that entity is the
\* last one emitted.
C6_Witness ==
    /\ graph = ChainGraph
    /\ bepc = "done"
    /\ beFaults = 0
    /\ depthStops = 1
    /\ Len(lookups) = MAX_DEPTH
    /\ beResult[Len(beResult)].nom = PersonName(MAX_DEPTH)

\* The owner results the call has produced so far, in order: pushed to
\* resultats (batch, radius) or handed to onResult (streaming).
Outputs ==
    IF mode = "stream" THEN [i \in DOMAIN callbacks |-> callbacks[i].data]
    ELSE resultats

\* Owner results and owner entries agree, position by position.
OutputsFollowOwners ==
    \A k \in DOMAIN Outputs :
        /\ k <= Len(proprietairesMap)
        /\ Outputs[k].key = proprietairesMap[k].key

\* The logged enrichSiren() call l did not throw, and its owner is in the
\* output at its own position, with company data exactly when the call
\* returned a record.
Swallowed(l) ==
    /\ l.ret # "throw"
    /\ l.owner \in DOMAIN Outputs
    /\ Outputs[l.owner].key = proprietairesMap[l.owner].key
    /\ Outputs[l.owner].entreprise = "record" <=> l.ret = "record"

\* No exception left the call after an enrichment, and a call that returned
\* a full result processed every owner.
NeverAborted ==
    /\ thrown # "" => enrichLog = <<>>
    /\ OutputsFollowOwners
    /\ spc \in {"returned", "ended"} /\ result.kind = "full"
          => Len(Outputs) = Len(proprietairesMap)

StoreFault == \E i \in DOMAIN storeCalls : storeCalls[i].outcome = "fault"

\* The call has ended with a structured result.
Structured == spc = "returned" /\ thrown = "" /\ result.kind \in {"empty", "full"}

C9_BatchStoreFault ==
    mode = "batch" /\ StoreFault =>
        /\ Structured
        /\ result.kind = "empty"
        /\ result.resultats = <<>>
        /\ result.total_proprietaires = 0
        /\ result.total_dans_polygone = 0
        /\ result.total_lots = 0
        /\ result.error # ""
        /\ regCalls = <<>>
        /\ enrichLog = <<>>
        /\ resultats = <<>>
        /\ storeCalls[Len(storeCalls)].outcome = "fault"
        /\ \A i, j \in DOMAIN storeCalls :
              storeCalls[i].q = storeCalls[j].q => i = j

\* C9 witness: the count query of a batch search over a region with owners
\* succeeded, the row query failed, and the call returned the empty result
\* with its diagnostic.
C9_Witness ==
    /\ mode = "batch"
    /\ store # <<>>
    /\ Len(storeCalls) = 2
    /\ storeCalls[1].outcome = "ok"
    /\ storeCalls[2].outcome = "fault"
    /\ spc = "returned"
    /\ result = EmptyResult("batch", "store fault")

\* C10: in a streaming search, no enrichSiren() call is issued once a callback
\* has run with the client closed, at most one callback runs with the client
\* closed, and when the client closes after the first of three owners was
\* emitted exactly one callback fires.
C10_StreamingCancellation ==
    /\ \A i \in DOMAIN regCalls : ~regCalls[i].observed
    /\ Cardinality({i \in DOMAIN callbacks : callbacks[i].closed}) <= 1
    /\ Len(proprietairesMap) = 3 /\ closedAt = 1 /\ spc = "ended"
          => Len(callbacks) = 1

\* The owners whose result carries company data.
EnrichedOwners == {k \in DOMAIN Outputs : Outputs[k].entreprise = "record"}

\* C11: in a batch or radius search enrichSiren() is called for at most
\* MAX_ENRICHMENT_BATCH owners whatever the calls return, and at most that
\* many owners carry company data; a streaming search has no cap.
C11_EnrichmentCap ==
    mode \in {"batch", "radius"} =>
        /\ Len(regCalls) <= MAX_ENRICHMENT_BATCH
        /\ Cardinality(EnrichedOwners) <= MAX_ENRICHMENT_BATCH

\* C12: searchByPolygon called with a polygon of fewer than 3 points returns,
\* without throwing, the empty result (no owner, total_dans_polygone 0) with
\* a debug.error, and no store query and no enrichSiren() call is made.
C12_ShortPolygon ==
    mode = "batch" /\ polygon \in 0..2 /\ spc # "start" =>
        /\ spc = "returned"
        /\ thrown = ""
        /\ result.kind = "empty"
        /\ result.resultats = <<>>
        /\ result.total_proprietaires = 0
        /\ result.total_dans_polygone = 0
        /\ result.error # ""
        /\ storeCalls = <<>>
        /\ regCalls = <<>>
        /\ enrichLog = <<>>

\* C12 witness: a batch search of a region with owners, called with a
\* polygon of 2 points, has returned the empty result and its diagnostic.
C12_Witness ==
    /\ mode = "batch"
    /\ polygon = 2
    /\ store # <<>>
    /\ spc = "returned"
    /\ result.error = "Polygone invalide (moins de 3 points)"
    /\ storeCalls = <<>>

\* C13: a radius request whose radius_meters is not a number in 1..50000 is
\* rejected by the route with a 400 and no store query (and no enrichSiren()
\* call) is ever made for it; searchByRadius is reached only with a radius
\* the route accepted.
C13_RadiusValidation ==
    /\ mode = "radius" /\ spc # "start"
          /\ ~(request.radius_meters.type = "number"
                /\ request.radius_meters.value \in 1..50000)
          => /\ spc = "rejected"
             /\ reply \in {"INVALID_RADIUS", "INVALID_COORDINATES"}
             /\ storeCalls = <<>>
             /\ regCalls = <<>>
    /\ mode = "radius" /\ storeCalls # <<>>
          => /\ request.radius_meters.type = "number"
             /\ request.radius_meters.value \in 1..50000

\* C13 witness: a request with numeric coordinates and radius_meters = 50001
\* over a region with owners was rejected as INVALID_RADIUS, no query made.
C13_Witness ==
    /\ mode = "radius"
    /\ store # <<>>
    /\ request = [coords |-> "numbers", radius_meters |-> Num(50001)]
    /\ spc = "rejected"
    /\ reply = "INVALID_RADIUS"
    /\ storeCalls = <<>>

\* The identifiers made of nine digits among those explored.
NineDigitIds == {EntId(k) : k \in 0..9}

\* C14: enrichSiren called with an identifier that is not made of nine digits
\* returns null at once: no waitForSlot() is taken and no GET is sent.
C14_NonNineDigit ==
    sirenArg \notin NineDigitIds /\ bepc \notin {"off", "call"} =>
        /\ bepc = "none"
        /\ slots = 0
        /\ gets = 0

\* A GET is sent only on a grant not yet used, and the GETs are the top-level
\* one and one per recursive lookup.
GrantsCoverCalls ==
    /\ gets <= slots
    /\ slots <= gets + 1
    /\ Len(lookups) <= gets
    /\ gets <= Len(lookups) + 1
    /\ bepc \in {"done", "thrown", "none"}
          => /\ slots = gets
             /\ gets = Len(lookups) + (IF ValidSiren(sirenArg) THEN 1 ELSE 0)

\* A step that sends a GET uses the grant taken just before it, a recursive
\* lookup is one GET, and a step takes at most one grant, only when the grant
\* before it has been used.
GrantThenCall ==
    /\ gets' # gets => gets' = gets + 1 /\ slots = gets + 1 /\ slots' = slots
    /\ lookups' # lookups => Len(lookups') = Len(lookups) + 1 /\ gets' = gets + 1
    /\ slots' # slots => slots' = slots + 1 /\ slots = gets /\ gets' = gets

\* C20: at every point of an enrichSiren call the number of GETs sent to the
\* registry is at most the number of waitForSlot() grants obtained; every
\* GET, top-level or recursive, is sent on its own grant, taken just before
\* it, and each recursive lookup takes one more grant and sends one more GET.
C20_GrantBeforeCall == []GrantsCoverCalls /\ [][GrantThenCall]_vars

\* C20 witness: the chain was resolved with one grant and one GET for the
\* owner and one of each for every one of the MAX_DEPTH recursive lookups.
C20_Witness ==
    /\ graph = ChainGraph
    /\ bepc = "done"
    /\ Len(lookups) = MAX_DEPTH
    /\ slots = MAX_DEPTH + 1
    /\ gets = MAX_DEPTH + 1

\* The number of owners of the region, whatever the limit: the distinct
\* non-NULL values of COALESCE(NULLIF(siren, ''), denomination).
RegionOwnerCount ==
    Cardinality({SqlKey(store[i]) : i \in DOMAIN store} \ {Null})

\* C15: a batch search that returns owners reports as total_dans_polygone the
\* result of its count query, which is the number of owners of the region
\* whatever the limit, and returns at most min(limit, MAX_RESULTS) owners and
\* at most total_dans_polygone owners; total_proprietaires is the number of
\* owners returned.
C15_Counts ==
    mode = "batch" /\ spc = "returned" /\ result.kind = "full" =>
        /\ result.total_dans_polygone = totalDansPolygone
        /\ result.total_dans_polygone = RegionOwnerCount
        /\ Len(result.resultats) <= ownerCap
        /\ ownerCap <= MAX_RESULTS
        /\ Len(result.resultats) <= result.total_dans_polygone
        /\ result.total_proprietaires = Len(result.resultats)

\* C15 witness: a batch search limited to 2 owners over the region of three
\* companies returned 2 owners and reported 3 owners in the region.
C15_Witness ==
    /\ mode = "batch"
    /\ store = ThreeOwners
    /\ ownerCap = 2
    /\ spc = "returned"
    /\ Len(result.resultats) = 2
    /\ result.total_proprietaires = 2
    /\ result.total_dans_polygone = 3

\* The top-level enrichSiren() calls of the search that have not returned.
InFlight == Len(regCalls) - Len(enrichLog)

\* C19: within one search the enrichSiren() calls are strictly sequential: at
\* most one is in flight, each one is issued when all the earlier ones have
\* returned (with a record, with nothing or with an exception), the calls
\* are made in the order of the owners, and one is in flight exactly while the
\* loop is suspended on the registry.
C19_Sequential ==
    /\ InFlight \in {0, 1}
    /\ InFlight = 1 <=> spc \in {"get", "map"}
    /\ \A k \in DOMAIN regCalls : regCalls[k].returned = k - 1
    /\ \A k \in DOMAIN enrichLog : enrichLog[k].owner = regCalls[k].owner
    /\ \A j, k \in DOMAIN regCalls :
          j < k => regCalls[j].owner < regCalls[k].owner

\* C19 witness: a batch search is suspended on its second enrichSiren() call;
\* the first one has returned, with a failure.
C19_Witness ==
    /\ mode = "batch"
    /\ spc = "get"
    /\ Len(regCalls) = 2
    /\ Len(enrichLog) = 1
    /\ enrichLog[1].ret # "record"

\* C17: in a streaming search the owners are handed to onResult one by one in
\* order; an owner that was enriched is emitted only once its enrichSiren()
\* call has returned, and the enrichSiren() call of an owner is issued, and
\* its iteration ended, only when every earlier owner has been emitted.
C17_EmitOrder ==
    mode = "stream" =>
        /\ \A i \in DOMAIN callbacks : callbacks[i].index = i - 1
        /\ Len(callbacks) = index
        /\ \A k \in DOMAIN regCalls :
              /\ regCalls[k].emitted = regCalls[k].owner - 1
              /\ regCalls[k].owner \in DOMAIN callbacks
                    => /\ k \in DOMAIN enrichLog
                       /\ enrichLog[k].owner = regCalls[k].owner
        /\ spc \in {"get", "map"}
              => /\ regCalls[Len(regCalls)].owner = index + 1
                 /\ index + 1 \notin DOMAIN callbacks

\* C17 witness: the second owner of a streaming search is being enriched; the
\* first one was enriched, without success, and has been emitted.
C17_Witness ==
    /\ mode = "stream"
    /\ spc = "map"
    /\ Len(regCalls) = 2
    /\ regCalls[1].owner = 1
    /\ regCalls[2].owner = 2
    /\ Len(callbacks) = 1
    /\ callbacks[1].data.entreprise = "none"

\* The positions of the records of type t in the response.
RecordsOf(t) == {i \in DOMAIN written : written[i].type = t}

\* The positions of the records that close the response.
TerminalPositions ==
    RecordsOf("summary") \cup RecordsOf("complete") \cup RecordsOf("error")

\* C18: the NDJSON response of the streaming route starts with its one start
\* record; the owner records follow, in the order of the owners and one per
\* callback at most; the closing records (summary and complete after a
\* return, error after an exception) are written only when the search is
\* over, so no owner record follows them; the closing records of a success
\* and the error record never both appear; and a response whose client has
\* not closed ends with complete or with error.
C18_WellOrdered ==
    ViaRoute =>
        /\ RecordsOf("start") = {1}
        /\ \A i \in DOMAIN written :
              written[i].type \in
                 {"start", "proprietaire", "summary", "complete", "error"}
        /\ \A i \in TerminalPositions : \A j \in RecordsOf("proprietaire") :
              j < i
        /\ \A i, j \in RecordsOf("proprietaire") :
              i < j => written[i].index < written[j].index
        /\ \A i \in RecordsOf("proprietaire") :
              written[i].index \in DOMAIN callbacks
        /\ TerminalPositions # {} => spc = "ended"
        /\ RecordsOf("error") = {}
              \/ RecordsOf("summary") \cup RecordsOf("complete") = {}
        /\ Cardinality(RecordsOf("complete")) <= 1
        /\ Cardinality(RecordsOf("error")) <= 1
        /\ RecordsOf("complete") # {} => thrown = ""
        /\ RecordsOf("error") # {} => thrown # ""
        /\ \A i \in RecordsOf("summary") : i + 1 \in RecordsOf("complete")
        /\ \A i \in RecordsOf("complete") : i = Len(written)
        /\ \A i \in RecordsOf("error") : i = Len(written)
        /\ spc = "ended" /\ ~clientClosed
              => written[Len(written)].type \in {"complete", "error"}

\* C18 witness: a streamed search of three owners has ended with the client
\* connected: the response is start, three owner records, summary,
\* complete.
C18_Witness ==
    /\ ViaRoute
    /\ spc = "ended"
    /\ Len(written) = 6
    /\ written[4].type = "proprietaire"
    /\ written[5].type = "summary"
    /\ written[6].type = "complete"

\* C16: every waitForSlot() call is eventually admitted: a caller that
\* sleeps on the limiter eventually returns from its call, whoever else
\* waits or calls meanwhile.
C16_NoStarvation ==
    \A c \in Callers : (rlpc[c] = "sleeping") ~> (rlpc[c] = "idle")

\* A step of the limiter adds a timestamp exactly when it makes a grant, and
\* it is the time of that grant; a step without a grant only drops expired
\* timestamps.
TimestampOnGrant ==
    /\ grants' = grants
          => timestamps' = timestamps \/ timestamps' = Prune(timestamps, now)
    /\ grants' # grants
          => /\ grants' = Append(grants, now)
             /\ timestamps' = Append(Prune(timestamps, now), now)

\* C24: whatever the interleaving of the waitForSlot() calls, the limiter
\* holds at most MaxRequests timestamps, and a timestamp is added only by a
\* grant: a call that has to sleep adds nothing until it is admitted.
C24_BoundedTimestamps ==
    /\ [](Len(timestamps) <= MaxRequests)
    /\ [][TimestampOnGrant]_vars

\* C24 witness: the limiter is full again after more grants than it can hold,
\* and a caller that found it full sleeps.
C24_Witness ==
    /\ Len(timestamps) = MaxRequests
    /\ pushes = MaxRequests + 2
    /\ \E c \in Callers : rlpc[c] = "sleeping" /\ wakeAt[c] > now

\* The ids of the entities of a control chain, in order.
ChainIds(chaine) == [i \in DOMAIN chaine |-> chaine[i].siren]

\* The entity that lists the beneficiary b: the last one of its chain, the
\* owner when the chain is empty.
ListingEntity(b) ==
    IF b.chaine_controle = <<>> THEN RootId
    ELSE b.chaine_controle[Len(b.chaine_controle)].siren

\* The chains of intermediary entities of graph g that start below entity e:
\* sequences of at most MAX_DEPTH - depth distinct entities, none in seen,
\* each a legal-entity director with a 9-character id of the one before and
\* each with directors of its own.
RECURSIVE ChainsFrom(_, _, _, _)
ChainsFrom(g, e, seen, depth) ==
    {<<>>} \cup
    (IF depth >= MAX_DEPTH THEN {}
     ELSE UNION {{<<d.siren>> \o c :
                     c \in ChainsFrom(g, d.siren, seen \cup {d.siren}, depth + 1)} :
                 d \in {x \in Range(g[e]) :
                           /\ x.type_dirigeant = "personne morale"
                           /\ x.siren # "" /\ Len(x.siren) = 9
                           /\ x.siren \notin seen
                           /\ x.siren \in DOMAIN g
                           /\ Len(g[x.siren]) > 0}})

\* The entity a chain of ids leads to.
ChainEnd(c) == IF c = <<>> THEN RootId ELSE c[Len(c)]

\* C21 as stated: when no lookup failed, the result has an entry for every
\* natural person and every chain of intermediary entities that leads from
\* the owner to an entity listing that person.
C21_PerChain ==
    (bepc = "done" /\ beFaults = 0) =>
        \A c \in ChainsFrom(graph, RootId, {RootId}, 0) :
            \A d \in Range(graph[ChainEnd(c)]) :
                d.type_dirigeant = "personne physique"
                   => \E i \in DOMAIN beResult :
                         /\ beResult[i].nom = d.nom
                         /\ ChainIds(beResult[i].chaine_controle) = c

\* C21 amended: the result is not deduplicated by identity: when no lookup
\* failed and no branch was cut by depth it has one entry for every listing
\* of a natural person by the owner or by an entity reachable from it, so a
\* person listed by two entities has two entries; every entity is
\* traversed through one chain only, the first that reaches it, so the
\* entries of the persons an entity lists all carry that one chain.
C21_PerListing ==
    /\ (bepc = "done" /\ beFaults = 0 /\ depthStops = 0) =>
          \A name \in PersonNames :
              Cardinality({i \in DOMAIN beResult : beResult[i].nom = name})
                  = ListedCount(graph,
                                ReachFrom(graph, {RootId}) \cap DOMAIN graph, name)
    /\ \A a, b \in Emitted :
          ListingEntity(a) = ListingEntity(b)
             => a.chaine_controle = b.chaine_controle

\* C21 witness: the person listed by both E1 and E2 has two entries, one
\* with the chain through E1 and one with the chain through E2.
C21_Witness ==
    /\ graph = TwinGraph
    /\ bepc = "done"
    /\ Len(beResult) = 3
    /\ beResult[1].nom = PersonName(7)
    /\ beResult[2].nom = PersonName(7)
    /\ ChainIds(beResult[1].chaine_controle) = <<EntId(1)>>
    /\ ChainIds(beResult[2].chaine_controle) = <<EntId(2)>>

\* The link of a control chain made from the legal-entity director d.
Link(d) ==
    [siren |-> d.siren, denomination |-> d.denomination, qualite |-> d.qualite]

\* The chain is a path of the director graph from the owner: each link is a
\* legal-entity director of the entity before it (of the owner, for the
\* first).
IsPath(chaine) ==
    \A i \in DOMAIN chaine :
        LET from == IF i = 1 THEN RootId ELSE chaine[i - 1].siren IN
        /\ from \in DOMAIN graph
        /\ \E d \in Range(graph[from]) :
              d.type_dirigeant = "personne morale" /\ Link(d) = chaine[i]

\* Every beneficiary built so far, in the order of the final result: the
\* returned ones, then those held by the running calls, outermost first.
RECURSIVE BuiltOf(_, _, _)
BuiltOf(res, stk, n) ==
    IF n = 0 THEN res ELSE BuiltOf(res, stk, n - 1) \o stk[n].beneficiaires

\* The chains of the running calls and of the beneficiaries: a call at depth
\* p runs with a chain of p links, which is the chain of its caller extended
\* by the director its caller is at; every beneficiary carries a path from
\* the owner to an entity that lists it.
ChainsFollowTraversal ==
    /\ \A i \in DOMAIN stack :
          /\ Len(stack[i].chaine) = stack[i].profondeur
          /\ i = 1 => stack[i].chaine = <<>>
          /\ i > 1 => stack[i].chaine =
                         Append(stack[i - 1].chaine,
                                Link(stack[i - 1].dirs[stack[i - 1].idx]))
    /\ \A b \in Emitted :
          /\ IsPath(b.chaine_controle)
          /\ ListingEntity(b) \in DOMAIN graph
          /\ \E d \in Range(graph[ListingEntity(b)]) :
                d.type_dirigeant = "personne physique" /\ d.nom = b.nom

\* A step that builds a beneficiary gives it the chain of the running call,
\* whose length is the depth of that call; no step changes a beneficiary
\* built before, unless the resolution throws and has no result.
ChainFixedAtEmission ==
    LET n == Len(stack) IN
    /\ (n > 0 /\ Len(stack') = n
           /\ Len(stack'[n].beneficiaires) = Len(stack[n].beneficiaires) + 1)
          => LET b == stack'[n].beneficiaires[Len(stack'[n].beneficiaires)] IN
             /\ b.chaine_controle = stack[n].chaine
             /\ Len(b.chaine_controle) = stack[n].profondeur
    /\ bepc' # "thrown"
          => LET old == BuiltOf(beResult, stack, n)
                 new == BuiltOf(beResult', stack', Len(stack'))
             IN /\ Len(new) >= Len(old)
                /\ SubSeq(new, 1, Len(old)) = old

\* C22: every beneficiary is tagged with exactly the intermediary entities
\* traversed from the owner to the entity that lists it, in traversal order:
\* no entity for a direct director of the owner, as many as the depth at
\* which the person is found, and the chain of a beneficiary is never changed
\* by the rest of the resolution.
C22_ChainTag == []ChainsFollowTraversal /\ [][ChainFixedAtEmission]_vars

\* C22 witness: on the chain of nested entities the owner's own person has an
\* empty chain and the person of the third entity has the chain E1, E2, E3.
C22_Witness ==
    /\ graph = ChainGraph
    /\ bepc = "done"
    /\ Len(beResult) >= 4
    /\ beResult[1].nom = PersonName(0)
    /\ beResult[1].chaine_controle = <<>>
    /\ beResult[4].nom = PersonName(3)
    /\ ChainIds(beResult[4].chaine_controle) = <<EntId(1), EntId(2), EntId(3)>>

\* The ids under which the answers of the registry name a legal-entity
\* director.
LegalEntityIds(g) ==
    {d.siren : d \in {x \in UNION {Range(g[e]) : e \in DOMAIN g} :
                         x.type_dirigeant = "personne morale" /\ Truthy(x.siren)}}

\* C27: within one enrichSiren call no legal entity is looked up twice,
\* whatever the director graph: the recursive lookups are of distinct ids
\* that name a legal-entity director, and the GETs sent to the registry are
\* at most one more than there are such ids.
C27_LookupOnce ==
    /\ \A i, j \in DOMAIN lookups :
          lookups[i].siren = lookups[j].siren => i = j
    /\ \A i \in DOMAIN lookups : lookups[i].siren \in LegalEntityIds(graph)
    /\ gets <= 1 + Len(lookups)
    /\ gets <= 1 + Cardinality(LegalEntityIds(graph))

\* C27 witness: on the diamond the entity reached through both branches was
\* looked up once: three lookups and four GETs for three legal entities.
C27_Witness ==
    /\ graph = DiamondGraph
    /\ bepc = "done"
    /\ Cardinality(LegalEntityIds(graph)) = 3
    /\ Len(lookups) = 3
    /\ gets = 4

\* The properties of owner k filed under the address key a.
PropsAt(k, a) == {n \in DOMAIN PropsOf(k) : AddrKey(PropsOf(k)[n]) = a}

RECURSIVE SumLots(_, _)
SumLots(s, n) == IF n = 0 THEN 0 ELSE SumLots(s, n - 1) + s[n].nombre_lots

\* C26: when a search has returned owners, the nombre_lots of the owners
\* output add up to total_lots, which is the number of fetched rows; the
\* nombre_lots of the address groups of an owner add up to the nombre_lots
\* of that owner; and every fetched row is held by exactly one owner, once.
C26_RowConservation ==
    (spc \in {"returned", "ended"} /\ result.kind = "full") =>
        /\ SumLots(Outputs, Len(Outputs)) = result.total_lots
        /\ result.total_lots = Len(fetched)
        /\ Len(Outputs) = Len(proprietairesMap)
        /\ \A k \in DOMAIN Outputs :
              /\ SumLots(Outputs[k].proprietes, Len(Outputs[k].proprietes))
                    = Outputs[k].nombre_lots
              /\ Outputs[k].nombre_lots = Len(proprietairesMap[k].proprietes)
        /\ \A i \in DOMAIN fetched :
              /\ Cardinality(EntriesOf(i)) = 1
              /\ \A k \in EntriesOf(i) :
                    Occurrences(proprietairesMap[k].proprietes, i) = 1

\* C26 witness: a batch search returned two owners or more for more rows
\* than owners, one owner having three rows at two addresses.
C26_Witness ==
    /\ mode = "batch"
    /\ spc = "returned"
    /\ result.kind = "full"
    /\ Len(result.resultats) >= 2
    /\ result.total_lots > Len(result.resultats)
    /\ \E k \in DOMAIN result.resultats :
          /\ Len(result.resultats[k].proprietes) = 2
          /\ result.resultats[k].nombre_lots = 3

\* The owner keys of rows[1..n] in the order in which they are first seen.
RECURSIVE FirstSeen(_, _)
FirstSeen(rows, n) ==
    IF n = 0 THEN <<>>
    ELSE LET prev == FirstSeen(rows, n - 1) IN
         IF ClaimOwnerKey(rows[n]) \in Range(prev) THEN prev
         ELSE Append(prev, ClaimOwnerKey(rows[n]))

\* C25: in a batch and in a streaming search the owners are output in the
\* order in which their keys are first seen among the fetched rows; the
\* streaming callbacks carry the indexes 0, 1, 2, ... and all the same total,
\* the number of owners; and a search that returns has output every owner
\* exactly once.
C25_OutputOrder ==
    mode \in {"batch", "stream"} =>
        LET order == FirstSeen(fetched, Len(fetched)) IN
        /\ Len(Outputs) <= Len(order)
        /\ \A k \in DOMAIN Outputs : Outputs[k].key = order[k]
        /\ \A i \in DOMAIN callbacks :
              /\ callbacks[i].index = i - 1
              /\ callbacks[i].total = Len(order)
        /\ (spc \in {"returned", "ended"} /\ result.kind = "full")
              => Len(Outputs) = Len(order)

\* C25 witness: a streaming search of a region whose first owner has rows
\* before and after the rows of the others has fired its three callbacks.
C25_Witness ==
    /\ mode = "stream"
    /\ store = MixedOwners
    /\ spc = "returned"
    /\ Len(fetched) = 5
    /\ Len(callbacks) = 3
    /\ callbacks[3].index = 2
    /\ callbacks[1].total = 3

\* The cadastral parts of a row.
CadastralParts(raw) ==
    <<raw.departement, raw.code_commune, raw.prefixe_section, raw.section,
      raw.numero_plan>>

\* C30: two fetched rows whose cadastral parts differ in at least one part
\* have different reference_complete strings, so that an address group holds
\* one reference for each distinct parcel of its rows.
C30_ReferenceIdentifies ==
    /\ \A i, j \in DOMAIN fetched :
          CadastralParts(fetched[i]) # CadastralParts(fetched[j])
             => TransformToPropiete(fetched[i]).reference_complete
                   # TransformToPropiete(fetched[j]).reference_complete
    /\ aggpc = "done" =>
          \A k \in DOMAIN resultats :
              \A g \in DOMAIN resultats[k].proprietes :
                  LET e == resultats[k].proprietes[g]
                      rows == {n \in DOMAIN proprietairesMap[k].proprietes :
                                 AddrKey(PropsOf(k)[n]) = e.key
                                    /\ PropsOf(k)[n].reference_complete # ""}
                  IN Len(e.references_cadastrales)
                        = Cardinality({CadastralParts(
                              fetched[proprietairesMap[k].proprietes[n]]) :
                                 n \in rows})

\* A step of the streaming route writes nothing once the client has closed
\* or the response has been ended, and never ends the response again.
QuietAfterClose ==
    /\ (clientClosed \/ streamEnded) => written' = written
    /\ streamEnded => streamEnded' /\ ends' = ends
    /\ ends' # ends => ends' = ends + 1 /\ ~streamEnded /\ streamEnded'

\* The response of the streaming route is ended at most once, and it is
\* ended when the route handler is over, whether the search returned or
\* threw and whether or not the client has closed.
EndedOnce ==
    ViaRoute =>
        /\ ends = (IF streamEnded THEN 1 ELSE 0)
        /\ streamEnded <=> spc = "ended"

\* C28: the streaming route ends the response exactly once on every path,
\* and writes no record after the response was ended or after the close of
\* the client was observed.
C28_EndOnce ==
    /\ []EndedOnce
    /\ [][QuietAfterClose]_vars
    /\ ViaRoute => <>(ends = 1)

\* C28 witness: the client closed after the first owner record, the search
\* went on to its end, nothing more was written and the response was ended
\* once.
C28_Witness ==
    /\ ViaRoute
    /\ spc = "ended"
    /\ clientClosed
    /\ closedAt = 1
    /\ Len(callbacks) >= 2
    /\ Len(written) = 2
    /\ ends = 1

\* A pipeline that downloads, decompresses, imports or indexes.
RunningImports == {c \in ImportCalls : pipeline[c] \in PipelinePhases}

\* C29: at most one BAN import pipeline (download, decompress, import, index)
\* is running at any time, whatever the interleaving of the startBanImport()
\* calls, and a call made while the status is downloading, decompressing or
\* importing is refused (success = false).
C29_SingleImport ==
    /\ Cardinality(RunningImports) <= 1
    /\ \A c \in DOMAIN banpc :
          (banpc[c] # "new"
             /\ calledAt[c] \in {"downloading", "decompressing", "importing"})
          => banReturn[c] = "busy"

====
